---- MODULE Spec2Model ----
(***************************************************************************)
(* Widget state-tree reconciliation of core/src/widget/tree.rs:            *)
(* Tree::new, Tree::take_all_named, Tree::diff, Tree::diff_children and    *)
(* Tree::diff_children_custom, together with the thread-local NAMED        *)
(* registry.                                                               *)
(*                                                                         *)
(* A State is modelled by its identity: 0 is State::None, n > 0 is the     *)
(* n-th State::Some(Box) allocated by a Widget::state() call.  Vec indices *)
(* recorded by the code (Visit.index, the i of new_trees) are kept         *)
(* 0-based as in the source; TLA+ sequences are 1-based, so accesses add 1.*)
(***************************************************************************)
EXTENDS Integers, Sequences, FiniteSets, TLC

VARIABLES tree, NAMED, next, dbg, assoc, steps, last

\* The SCTK shell.  SctkEventLoop::run_return and its SctkState:
VARIABLES pc, control_flow, exit_code, error, windows, session_lock, dnd_source,
          compositor_updates, frame_events, state_sctk_events, back_buffer,
          pending_user_events, user_events_channel, pending_redraws
\* run, the callback it hands to run_return, and the locals of run_instance:
VARIABLES surface_ids, states, interfaces, auto_size_surfaces, sctk_events,
          messages, redraw_pending, control_receiver, instance,
          exit_on_close_request, unique, application
\* the compositor's side of the session lock, the events the compositor
\* sends in this run, the record of what the application was handed, and the
\* iterations run_return has made:
VARIABLES server, compositor, seen, iters

\* touch_points and dnd_offer of SctkState; fingers, the touch points that
\* are down on the compositor's side; drag_offer, the offer the data device
\* holds; sources, the read pipes inserted in the event loop; buffers, the
\* SubsurfaceBuffers and what holds a reference to each
VARIABLES touch_points, fingers, dnd_offer, drag_offer, sources, buffers

treeVars == <<tree, NAMED, next, dbg, assoc, steps, last>>

loopVars == <<pc, control_flow, exit_code, error, windows, session_lock, dnd_source,
              compositor_updates, frame_events, state_sctk_events, back_buffer,
              pending_user_events, user_events_channel, pending_redraws>>

appVars == <<surface_ids, states, interfaces, auto_size_surfaces, sctk_events,
             messages, redraw_pending, control_receiver, instance,
             exit_on_close_request, unique, application>>

handlerVars == <<touch_points, fingers, dnd_offer, drag_offer, sources, buffers>>

shellVars == <<loopVars, appVars, server, compositor, seen, iters, handlerVars>>

vars == <<treeVars, shellVars>>

-----------------------------------------------------------------------------
(* Bounds of the model                                                     *)

MaxSteps == 2

-----------------------------------------------------------------------------
(* Tags, ids and states                                                    *)

\* Tag::stateless(): the tag of a widget without state
Stateless == "unit"

\* Option<Id>::None
NoId == <<>>

\* Id(Internal::Custom(_, n))
Custom(n) == <<"C", n>>

\* Id(Internal::Unique(_))
Unique(u) == <<"U", u>>

\* matches!(id, Some(Id(Internal::Custom(_, _))))
IsCustom(id) == id # NoId /\ id[1] = "C"

\* the n of Internal::Custom(_, n)
NameOf(id) == id[2]

\* State::None
StateNone == 0

\* Tree::empty()
TreeEmpty == [tag |-> Stateless, id |-> NoId, state |-> StateNone, children |-> <<>>]

\* the thread-local registry, empty: HashMap::new()
EmptyNamed == [n \in {} |-> 0]

\* HashMap::remove / HashMap::insert on a map kept as a function
MapRemove(m, k) == [x \in (DOMAIN m) \ {k} |-> m[x]]

MapInsert(m, k, v) == [x \in (DOMAIN m) \cup {k} |-> IF x = k THEN v ELSE m[x]]

\* Vec::insert(i, x) with a 0-based i <= len
VecInsert(s, i, x) == SubSeq(s, 1, i) \o <<x>> \o SubSeq(s, i + 1, Len(s))

\* Vec::truncate(n)
VecTruncate(s, n) == IF Len(s) > n THEN SubSeq(s, 1, n) ELSE s

-----------------------------------------------------------------------------
(* The SCTK shell: sctk/src/event_loop/mod.rs and sctk/src/application.rs. *)
(* Sizes, scale factors, the renderer and the widgets of a surface are     *)
(* left out; what a handler decides from them is an input of the step.     *)

\* a wl_surface's ObjectId and a window::Id (SurfaceId)
Object(k) == <<"wl", k>>

Native(k) == <<"id", k>>

NoObject == <<>>

NoNative == <<>>

\* SurfaceIdWrapper::Window(inner), ::LayerSurface(inner), ::Popup(inner),
\* ::Dnd(inner), ::SessionLock(inner)
Wrapper(kind, inner) == [kind |-> kind, inner |-> inner]

\* an event or an action in one of the queues: its variant t, the kind of
\* surface it is about, the wl_surface o, the window::Id n, and the flag it
\* carries (first of a Configure, autosize of a builder)
Ev(t, kind, o, n, flag) == [t |-> t, kind |-> kind, o |-> o, n |-> n, flag |-> flag]

\* State::new: no compositor surface, no redraw asked for
StateNew(wrapper) ==
    [wrapper |-> wrapper, surface |-> FALSE, needs_redraw |-> FALSE,
     first |-> TRUE, frame_pending |-> FALSE, viewport_changed |-> TRUE]

\* no flush, dispatch_pending or dispatch has failed; os = 0 stands for a
\* failure without a raw OS error
NoError == [at |-> "none", os |-> 0]

\* what the application was handed, before the first callback
\* last: the event handled last; known: its surface was in surface_ids;
\* had: and had an interface (for the end of a drag: there was a drag icon);
\* configured: the surfaces that were handed a
\* Configure and no Close or Done since; phase: how far the iteration has come; main: the id of the initial
\* surface; held, acked: the last Unlock found a lock, its roundtrip came
\* back; queue, broadcast, scheduled: sctk_events as MainEventsCleared found
\* it, what it broadcast, the redraws it posted; drawn: the draws of the
\* last event; closed: the windows, layer surfaces and popups a Close or Done
\* was handed for, one entry for each
NoSeen == [last |-> Ev("none", "none", NoObject, NoNative, FALSE),
           known |-> TRUE, had |-> FALSE, configured |-> {},
           phase |-> "none", main |-> NoNative,
           held |-> FALSE, acked |-> FALSE,
           queue |-> <<>>, broadcast |-> <<>>, scheduled |-> {},
           drawn |-> <<>>, closed |-> <<>>]

\* an Application as the shell sees it: the initial surface of its settings,
\* the actions its Commands can hold, the kinds of surface it asks for,
\* whether its builders ask for autosize, where its messages come from
\* (the futures and subscriptions of the runtime, its widgets), and how many
\* surfaces and drag icons it asks for
NoApplication == [main |-> "none", actions |-> {}, kinds |-> {}, autosize |-> FALSE,
                  messages |-> {}, surfaces |-> 0]

\* dnd_offer: None
NoOffer == [some |-> FALSE, dropped |-> FALSE, offer |-> 0, cur_read |-> FALSE,
            surface |-> NoObject]

\* the handlers of the seat and of the buffers before any event
NoHandlers ==
    /\ touch_points = <<>>
    /\ fingers = {}
    /\ dnd_offer = NoOffer
    /\ drag_offer = 0
    /\ sources = 0
    /\ buffers = <<>>

\* the shell is not running: the reconciliation specifications leave it so
NoShell ==
    /\ pc = "off"
    /\ control_flow = "Poll"
    /\ exit_code = 0
    /\ error = NoError
    /\ windows = <<>>
    /\ session_lock = FALSE
    /\ dnd_source = FALSE
    /\ compositor_updates = <<>>
    /\ frame_events = <<>>
    /\ state_sctk_events = <<>>
    /\ back_buffer = <<>>
    /\ pending_user_events = <<>>
    /\ user_events_channel = <<>>
    /\ pending_redraws = <<>>
    /\ surface_ids = <<>>
    /\ states = <<>>
    /\ interfaces = {}
    /\ auto_size_surfaces = <<>>
    /\ sctk_events = <<>>
    /\ messages = <<>>
    /\ redraw_pending = FALSE
    /\ control_receiver = <<>>
    /\ instance = "pending"
    /\ exit_on_close_request = FALSE
    /\ unique = 0
    /\ application = NoApplication
    /\ server = "unlocked"
    /\ compositor = {}
    /\ seen = NoSeen
    /\ iters = 0
    /\ NoHandlers

-----------------------------------------------------------------------------
(* Widgets.  A widget is [tag, id, kids]: tag() is .tag, id() is .id,      *)
(* children() builds Tree::new of each kid and diff(tree) calls            *)
(* tree.diff_children(kids), as Button, DndSource, DndListener and         *)
(* LocalState do; a widget without kids keeps the default hooks.           *)

\* Widget::state(): State::None for a stateless widget, else a new Box
WidgetState(w, ctx) ==
    IF w.tag = Stateless
    THEN [s |-> StateNone, c |-> ctx]
    ELSE [s |-> ctx.next, c |-> [ctx EXCEPT !.next = @ + 1]]

\* Widget::set_id: widgets that store an id overwrite it, the default ignores it
WidgetSetId(w, id) == IF w.id = NoId THEN w ELSE [w EXCEPT !.id = id]

RECURSIVE TreeNew(_, _)
RECURSIVE NewAll(_, _, _)

\* Widget::children(): vec![Tree::new(&kid), ...]
WidgetChildren(w, ctx) == NewAll(w.kids, <<>>, ctx)

NewAll(ws, acc, ctx) ==
    IF ws = <<>>
    THEN [ts |-> acc, c |-> ctx]
    ELSE LET Rest(r) == NewAll(Tail(ws), Append(acc, r.t), r.c)
         IN Rest(TreeNew(Head(ws), ctx))

\* Tree::new(widget)
TreeNew(w, ctx) ==
    LET Node(st, ch) ==
            [t |-> [tag |-> w.tag, id |-> w.id, state |-> st.s, children |-> ch.ts],
             c |-> ch.c]
        WithState(st) == Node(st, WidgetChildren(w, st.c))
    IN WithState(WidgetState(w, ctx))

-----------------------------------------------------------------------------
(* Tree::take_all_named.  A &mut Tree on the traversal stack is the path   *)
(* (1-based child positions) of the node below the root.                   *)

RECURSIVE NodeAt(_, _)
RECURSIVE ReplaceAt(_, _, _)

NodeAt(t, p) == IF p = <<>> THEN t ELSE NodeAt(t.children[Head(p)], Tail(p))

ReplaceAt(t, p, n) ==
    IF p = <<>>
    THEN n
    ELSE [t EXCEPT !.children[Head(p)] = ReplaceAt(@, Tail(p), n)]

\* Option<Visit>::None
NoVisit == [some |-> FALSE, parent |-> "", index |-> 0, visited |-> FALSE]

\* a slip: the entry of a child starts as visited, so the child is moved the
\* first time it is popped
SomeVisitAlreadyVisited(n, i, v) == [some |-> TRUE, parent |-> n, index |-> i, visited |-> TRUE]

\* Some(Visit { parent, index, visited })
SomeVisit(n, i, v) == [some |-> TRUE, parent |-> n, index |-> i, visited |-> v]

\* tree.children.iter_mut().rev().enumerate().map(..) of a named node
NamedChildEntries(node, p, n) ==
    LET len == Len(node.children)
    IN [k \in 1..len |->
          LET i == k - 1
              pos == len - i
          IN [path |-> Append(p, pos),
              visit |-> IF IsCustom(node.children[pos].id)
                        THEN NoVisit
                        ELSE SomeVisit(n, i, FALSE)]]

\* tree.children.iter_mut().map(|c| (c, None))
PlainChildEntries(node, p) ==
    [k \in 1..Len(node.children) |-> [path |-> Append(p, k), visit |-> NoVisit]]

RECURSIVE TakeLoop(_, _, _, _)

\* while let Some((tree, visit)) = stack.pop() { .. }; log lists the nodes
\* popped, by path, with what the iteration did to the node
TakeLoop(t, stack, named, log) ==
    IF stack = <<>>
    THEN [t |-> t, named |-> named, log |-> log]
    ELSE LET top == stack[Len(stack)]
             rest == SubSeq(stack, 1, Len(stack) - 1)
             node == NodeAt(t, top.path)
             Did(what) == Append(log, [path |-> top.path, did |-> what])
         IN IF IsCustom(node.id)
            THEN LET n == NameOf(node.id)
                 IN TakeLoop(ReplaceAt(t, top.path, [node EXCEPT !.state = StateNone]),
                             rest \o NamedChildEntries(node, top.path, n),
                             MapInsert(named, n, [state |-> node.state, children |-> <<>>]),
                             Did("taken"))
            ELSE IF top.visit.some
            THEN IF top.visit.visited
                 THEN TakeLoop(ReplaceAt(t, top.path,
                                         [TreeEmpty EXCEPT !.id = node.id, !.tag = node.tag]),
                               rest,
                               [named EXCEPT ![top.visit.parent].children =
                                                Append(@, <<top.visit.index, node>>)],
                               Did("moved"))
                 ELSE TakeLoop(t,
                               Append(rest, [path |-> top.path,
                                             visit |-> [top.visit EXCEPT !.visited = TRUE]])
                                   \o PlainChildEntries(node, top.path),
                               named,
                               Did("pushed"))
            ELSE TakeLoop(t, rest \o PlainChildEntries(node, top.path), named, Did("passed"))

\* Tree::take_all_named(&mut self): the tree left behind, the returned map
\* and the log of the traversal
TakeAllNamed(t) == TakeLoop(t, <<[path |-> <<>>, visit |-> NoVisit]>>, EmptyNamed, <<>>)

-----------------------------------------------------------------------------
(* Tree::diff, Tree::diff_children, Tree::diff_children_custom.  The       *)
(* context ctx = [next, named, dbg, assoc, log] threads the allocation      *)
(* counter, the NAMED registry, the debug_assert! outcome, the note of     *)
(* which State each named widget ended with and the log of the calls of    *)
(* Tree::diff and of the widgets' diff through the recursion.              *)

\* the log entry of a call: Tree::diff ("diff") or Widget::diff ("hook") of
\* the widget w on the node t as the call finds it
Call(ev, w, t) ==
    [ev |-> ev, tag |-> w.tag, kids |-> Len(w.kids),
     state |-> t.state, children |-> Len(t.children)]

Logged(ctx, ev, w, t) == [ctx EXCEPT !.log = Append(@, Call(ev, w, t))]

RECURSIVE Diff(_, _, _)
RECURSIVE DiffChildrenCustom(_, _, _, _)
RECURSIVE ChildLoop(_, _, _, _, _)

\* for (old_i, mut old) in children { .. mem::swap(my_state, &mut old) }
RECURSIVE SwapLoop(_, _, _, _)
SwapLoop(recs, mine, widget_children, d) ==
    IF recs = <<>>
    THEN [children |-> mine, dbg |-> d]
    ELSE LET old_i == Head(recs)[1]
             old == Head(recs)[2]
         IN IF old_i >= Len(widget_children) \/ old_i >= Len(mine)
            THEN SwapLoop(Tail(recs), mine, widget_children, d)
            ELSE SwapLoop(Tail(recs),
                          [mine EXCEPT ![old_i + 1] = old],
                          widget_children,
                          d \/ old.tag # mine[old_i + 1].tag
                            \/ old.id # widget_children[old_i + 1].id)

\* Tree::diff_children(new_children)
DiffChildren(t, ws, ctx) ==
    DiffChildrenCustom(t, ws, [i \in 1..Len(ws) |-> ws[i].id], ctx)

\* a slip: Tree::diff returns without calling the widget's diff
WidgetDiffSkipped(w, t, ctx) == [t |-> t, w |-> w, c |-> ctx]

\* Widget::diff(&mut self, tree): tree.diff_children(kids); default: nothing
WidgetDiff(w, t, ctx) ==
    IF w.kids = <<>>
    THEN [t |-> t, w |-> w, c |-> Logged(ctx, "hook", w, t)]
    ELSE LET Done(r) == [t |-> r.t, w |-> [w EXCEPT !.kids = r.ws], c |-> r.c]
         IN Done(DiffChildren(t, w.kids, Logged(ctx, "hook", w, t)))

\* a slip: the State taken from NAMED is dropped, the node keeps its own
SwapStateKeepsOwn(t, entry) == t

\* std::mem::swap(&mut self.state, &mut state): the node gets the State of NAMED
SwapState(t, entry) == [t EXCEPT !.state = entry.state]

\* a slip: the entry matched stays in NAMED
DiffNamedFoundKeepsEntry(t, w, ctx, tag_match) ==
    LET n == NameOf(w.id)
        entry == ctx.named[n]
        Replaced(wc2) ==
            [t |-> [SwapState(t, entry) EXCEPT !.children = wc2.ts], c |-> wc2.c]
        Swapped(wc, sw) ==
            [t |-> [SwapState(t, entry) EXCEPT !.children = sw.children],
             c |-> [wc.c EXCEPT !.dbg = sw.dbg]]
        Branch(wc) ==
            IF ~tag_match \/ Len(t.children) # Len(wc.ts)
            THEN Replaced(WidgetChildren(w, wc.c))
            ELSE Swapped(wc, SwapLoop(entry.children, t.children, wc.ts, wc.c.dbg))
    IN Branch(WidgetChildren(w, ctx))

\* the branch of Tree::diff taken when NAMED holds an entry for the name
DiffNamedFound(t, w, ctx, tag_match) ==
    LET n == NameOf(w.id)
        entry == ctx.named[n]
        \* self.children = borrowed.children()
        Replaced(wc2) ==
            [t |-> [SwapState(t, entry) EXCEPT !.children = wc2.ts], c |-> wc2.c]
        \* the children of the entry swapped in by their index
        Swapped(wc, sw) ==
            [t |-> [SwapState(t, entry) EXCEPT !.children = sw.children],
             c |-> [wc.c EXCEPT !.dbg = sw.dbg]]
        \* wc: let widget_children = borrowed.children()
        Branch(wc) ==
            IF ~tag_match \/ Len(t.children) # Len(wc.ts)
            THEN Replaced(WidgetChildren(w, wc.c))
            ELSE Swapped(wc, SwapLoop(entry.children, t.children, wc.ts, wc.c.dbg))
    IN Branch(WidgetChildren(w, [ctx EXCEPT !.named = MapRemove(@, n)]))

\* a slip: a node whose tag matches is rebuilt all the same
DiffTagMatchRebuilds(t, w, ctx) ==
    LET Out(n) == [t |-> n.t, w |-> w, c |-> n.c]
    IN Out(TreeNew(w, ctx))

\* the tag_match branch of Tree::diff for a widget without a name
DiffTagMatch(t, w, ctx) ==
    LET w1 == IF t.id # NoId THEN WidgetSetId(w, t.id) ELSE w
        \* self.children = borrowed.children()
        Replaced(wc2) == [t |-> [t EXCEPT !.children = wc2.ts], w |-> w1, c |-> wc2.c]
        \* wc: if self.children.len() != borrowed.children().len()
        Branch(wc) ==
            IF Len(t.children) # Len(wc.ts)
            THEN Replaced(WidgetChildren(w1, wc.c))
            ELSE [t |-> t, w |-> w1, c |-> wc.c]
    IN Branch(WidgetChildren(w1, ctx))

\* a slip: the rebuilt node keeps the State of the node it replaces
DiffResetKeepsState(t, w, ctx) ==
    LET n == TreeNew(w, ctx)
    IN [n EXCEPT !.t.state = t.state]

\* a slip: the rebuilt node keeps the children of the node it replaces
DiffResetKeepsChildren(t, w, ctx) ==
    LET Out(n) == [n EXCEPT !.t.children = t.children]
    IN Out(TreeNew(w, ctx))

\* needs_reset: *self = Self::new(borrowed)
DiffReset(t, w, ctx) == TreeNew(w, ctx)

\* a slip: the widget's diff is left out after a rebuild
DiffNoHookAfterReset(t, w, ctx) ==
    LET tag_match == t.tag = w.tag
        found == IsCustom(w.id) /\ NameOf(w.id) \in DOMAIN ctx.named
        c0 == Logged(ctx, "diff", w, t)
        Plain(f) == [t |-> f.t, w |-> w, c |-> f.c]
        Noted(r) ==
            IF IsCustom(w.id)
            THEN [r EXCEPT !.c.assoc = MapInsert(@, NameOf(w.id), r.t.state)]
            ELSE r
        Hook(b) == Noted(WidgetDiff(b.w, b.t, b.c))
    IN IF found
       THEN Hook(Plain(DiffNamedFound(t, w, c0, tag_match)))
       ELSE IF ~IsCustom(w.id) /\ tag_match
       THEN Hook(DiffTagMatch(t, w, c0))
       ELSE Noted(Plain(DiffReset(t, w, c0)))

\* Tree::diff(&mut self, new).  ctx.assoc notes, for a named widget, the
\* State its node holds when the call returns.
Diff(t, w, ctx) ==
    LET tag_match == t.tag = w.tag
        found == IsCustom(w.id) /\ NameOf(w.id) \in DOMAIN ctx.named
        c0 == Logged(ctx, "diff", w, t)
        Plain(f) == [t |-> f.t, w |-> w, c |-> f.c]
        Noted(r) ==
            IF IsCustom(w.id)
            THEN [r EXCEPT !.c.assoc = MapInsert(@, NameOf(w.id), r.t.state)]
            ELSE r
        \* borrowed.diff(self), after whichever branch ran
        Hook(b) == Noted(WidgetDiff(b.w, b.t, b.c))
    IN Hook(IF found
            THEN Plain(DiffNamedFound(t, w, c0, tag_match))
            ELSE IF ~IsCustom(w.id) /\ tag_match
            THEN DiffTagMatch(t, w, c0)
            ELSE Plain(DiffReset(t, w, c0)))

\* a slip: the fold never fills id_map
IdMapEmpty(children) == EmptyNamed

\* the name -> child map of the fold: a later child of the same name wins
IdMap(children) ==
    LET names == {NameOf(children[k].id) : k \in {j \in 1..Len(children) : IsCustom(children[j].id)}}
    IN [n \in names |->
          CHOOSE k \in 1..Len(children) :
              /\ IsCustom(children[k].id) /\ NameOf(children[k].id) = n
              /\ \A j \in 1..Len(children) :
                    (IsCustom(children[j].id) /\ NameOf(children[j].id) = n) => j <= k]

\* a slip: the fold pushes every child to id_list, the named ones too
IdListAll(children, k) == [j \in 1..(Len(children) - k + 1) |-> j + k - 1]

\* the positions of the children that go to id_list, in order
RECURSIVE IdList(_, _)
IdList(children, k) ==
    IF k > Len(children)
    THEN <<>>
    ELSE IF IsCustom(children[k].id)
         THEN IdList(children, k + 1)
         ELSE <<k>> \o IdList(children, k + 1)

\* for (new_tree, i) in new_trees { self.children.insert(i, new_tree) }
RECURSIVE InsertAll(_, _)
InsertAll(children, new_trees) ==
    IF new_trees = <<>>
    THEN children
    ELSE InsertAll(VecInsert(children, Head(new_trees)[2], Head(new_trees)[1]),
                   Tail(new_trees))

\* the for loop of diff_children_custom over new_children.zip(new_ids), from i on
ChildLoop(i, st, new_ids, id_list, len_changed) ==
    IF i > Len(st.ws) \/ i > Len(new_ids)
    THEN st
    ELSE LET new_id == new_ids[i]
             by_name == IsCustom(new_id) /\ NameOf(new_id) \in DOMAIN st.id_map
             by_list == /\ ~by_name
                        /\ st.child_state_i < Len(id_list)
                        /\ ~IsCustom(st.children[id_list[st.child_state_i + 1]].id)
             pos == IF by_name THEN st.id_map[NameOf(new_id)]
                    ELSE IF by_list THEN id_list[st.child_state_i + 1]
                    ELSE 0
             \* r: the node and the widget as diff(child_state, new) left them
             Step(r) ==
                 ChildLoop(i + 1,
                           [children |-> IF pos = 0 THEN st.children
                                         ELSE [st.children EXCEPT ![pos] = r.t],
                            ws |-> [st.ws EXCEPT ![i] = r.w],
                            c |-> r.c,
                            id_map |-> IF by_name
                                       THEN MapRemove(st.id_map, NameOf(new_id))
                                       ELSE st.id_map,
                            child_state_i |-> IF by_list THEN st.child_state_i + 1
                                              ELSE st.child_state_i,
                            new_trees |-> IF pos = 0
                                          THEN Append(st.new_trees, <<r.t, i - 1>>)
                                          ELSE st.new_trees,
                            match |-> Append(st.match, pos),
                            res |-> Append(st.res, r.t)],
                           new_ids, id_list, len_changed)
             \* cs: child_state, the old child found or new_state(new)
             DiffWith(cs) == Step(Diff(cs.t, st.ws[i], cs.c))
         IN DiffWith(IF by_name THEN [t |-> st.children[pos], c |-> st.c]
                     ELSE IF by_list
                     THEN [t |-> IF len_changed
                                 THEN [st.children[pos] EXCEPT !.id = new_id]
                                 ELSE st.children[pos],
                           c |-> st.c]
                     ELSE TreeNew(st.ws[i], st.c))

\* Tree::diff_children_custom(new_children, new_ids, diff, new_state) with
\* the closures of diff_children: diff = Tree::diff, new_state = Tree::new.
\* match[i] is the position (before the final inserts) of the old child
\* that new_children[i] was diffed against, 0 when a node was created for it;
\* res[i] is that node as its diff left it.
DiffChildrenCustom(t, ws, new_ids, ctx) ==
    LET kept == VecTruncate(t.children, Len(ws))
        len_changed == Len(kept) # Len(ws)
        Out(st) ==
            [t |-> [t EXCEPT !.children = InsertAll(st.children, st.new_trees)],
             ws |-> st.ws, c |-> st.c, match |-> st.match, res |-> st.res]
    IN Out(ChildLoop(1,
                     [children |-> kept, ws |-> ws, c |-> ctx,
                      id_map |-> IdMap(kept), child_state_i |-> 0,
                      new_trees |-> <<>>, match |-> <<>>, res |-> <<>>],
                     new_ids, IdList(kept, 1), len_changed))

-----------------------------------------------------------------------------------------------------------------------------------------------------
(* The widgets handed to the tree                                          *)

Wdg(tag, id, kids) == [tag |-> tag, id |-> id, kids |-> kids]

\* widgets without children: three state types without a name, named ones
U1 == Wdg("t1", NoId, <<>>)
U2 == Wdg("t2", NoId, <<>>)
U3 == Wdg("t3", NoId, <<>>)
X1 == Wdg("t1", Custom("x"), <<>>)
X2 == Wdg("t2", Custom("x"), <<>>)
Y1 == Wdg("t1", Custom("y"), <<>>)

\* a stateless container without a name
Col(kids) == Wdg(Stateless, NoId, kids)

\* the lists handed to diff_children; no name occurs twice in a list
Lists ==
    { <<>>, <<U1>>, <<X1>>, <<U1, U2>>, <<U2, U1>>, <<U2, X1>>, <<X1, U2>>,
      <<X1, Y1>>, <<Y1, X1>>, <<U1, X2>>, <<Y1, U1>>,
      <<U1, U2, U3>>, <<U1, U2, U1>>, <<X1, U1, U2>>, <<U1, U2, X1>> }

\* the root widgets of a frame; no name occurs twice in a widget tree
Roots ==
    { U1, U2, X1, X2,
      Col(<<U1, U2>>), Col(<<X1, U2>>), Col(<<U2, X1>>), Col(<<X1, Y1>>),
      Col(<<U1, U2, U1>>), Col(<<U1, U2, U3>>),
      Col(<<Col(<<X1>>), Col(<<U2>>)>>), Col(<<Col(<<U2>>), Col(<<X1>>)>>),
      Wdg("t1", NoId, <<U1>>),
      Wdg("t1", Custom("y"), <<U1, U2>>),
      Wdg("t2", Custom("y"), <<U2, U1>>),
      Wdg("t1", Custom("y"), <<Col(<<X1>>), U2>>) }

-----------------------------------------------------------------------------
(* The state machine.  last records the operation that produced the state: *)
(* its name, the tree, the registry and the notes before it, the widgets   *)
(* handed in and as the operation left them, what take_all_named returned, *)
(* and whether every operation so far was a reconciliation pass.           *)

\* what last notes of a call of diff_children_custom_with_search: the
\* answers of maybe_changed, the children before the diffs, a panic
NoSearch == [flagged |-> {}, sized |-> <<>>, panic |-> FALSE]

NoLast == [op |-> "init", pre |-> TreeEmpty, w |-> <<>>, out |-> <<>>,
           preNext |-> 1, preNamed |-> EmptyNamed, preAssoc |-> EmptyNamed,
           match |-> <<>>, res |-> <<>>, taken |-> TreeEmpty, map |-> EmptyNamed,
           passes |-> TRUE, log |-> <<>>, visits |-> <<>>, search |-> NoSearch]

\* the tree of a first frame: Tree::empty() reconciled with the root widget
Init ==
    \E w \in Roots :
        \E r \in {Diff(TreeEmpty, w, [next |-> 1, named |-> EmptyNamed,
                                      dbg |-> FALSE, assoc |-> EmptyNamed,
                                      log |-> <<>>])} :
            /\ tree = r.t
            /\ next = r.c.next
            /\ NAMED = EmptyNamed
            /\ dbg = FALSE
            /\ assoc = r.c.assoc
            /\ steps = 0
            /\ last = NoLast
            /\ NoShell

Ctx == [next |-> next, named |-> NAMED, dbg |-> dbg, assoc |-> EmptyNamed, log |-> <<>>]

\* one reconciliation pass: NAMED is loaded with tree.take_all_named(), then
\* tree.diff(w)
Pass(w) ==
    /\ steps < MaxSteps
    /\ UNCHANGED shellVars
    /\ steps' = steps + 1
    /\ \E tk \in {TakeAllNamed(tree)} :
         \E r \in {Diff(tk.t, w, [Ctx EXCEPT !.named = tk.named])} :
            /\ tree' = r.t
            /\ NAMED' = r.c.named
            /\ next' = r.c.next
            /\ dbg' = r.c.dbg
            /\ assoc' = r.c.assoc
            /\ last' = [op |-> "pass", pre |-> tree, w |-> <<w>>, out |-> <<r.w>>,
                        preNext |-> next, preNamed |-> tk.named, preAssoc |-> assoc,
                        match |-> <<>>, res |-> <<>>, taken |-> tk.t, map |-> tk.named,
                        passes |-> last.passes, log |-> r.c.log,
                        visits |-> tk.log, search |-> NoSearch]

\* tree.diff_children(ws) against the registry as it stands
DiffChildrenRoot(ws) ==
    /\ steps < MaxSteps
    /\ UNCHANGED shellVars
    /\ steps' = steps + 1
    /\ \E r \in {DiffChildren(tree, ws, Ctx)} :
          /\ tree' = r.t
          /\ NAMED' = r.c.named
          /\ next' = r.c.next
          /\ dbg' = r.c.dbg
          /\ assoc' = r.c.assoc
          /\ last' = [op |-> "children", pre |-> tree, w |-> ws, out |-> r.ws,
                      preNext |-> next, preNamed |-> NAMED, preAssoc |-> assoc,
                      match |-> r.match, res |-> r.res, taken |-> tree, map |-> EmptyNamed,
                      passes |-> FALSE, log |-> r.c.log, visits |-> <<>>,
                      search |-> NoSearch]

Next ==
    \/ \E w \in Roots : Pass(w)
    \/ \E ws \in Lists : DiffChildrenRoot(ws)

Spec == Init /\ [][Next]_vars

-----------------------------------------------------------------------------
(* What the operation that produced the state was given                    *)

\* the state came out of a pass, i.e. of Tree::diff(OpT, OpW)
IsDiff == last.op = "pass"

\* the tree as Tree::diff found it (after take_all_named) and its widget
OpT == last.taken
OpW == last.w[1]

\* the state came out of Tree::diff_children(OldChildren's parent, NewChildren)
IsChildren == last.op = "children"

OldChildren == last.pre.children
NewChildren == last.w

\* the old children left by self.children.truncate(new_children.len())
Kept == VecTruncate(OldChildren, Len(NewChildren))

\* s is what w.state() returned during the operation: State::None for a
\* stateless widget, else a State allocated by the operation
FreshFor(s, w) == IF w.tag = Stateless THEN s = StateNone ELSE s >= last.preNext

\* the elements of a set of indices in increasing order
Sorted(S) ==
    [k \in 1..Cardinality(S) |-> CHOOSE x \in S : Cardinality({y \in S : y < x}) = k - 1]

AllUnnamed(seq) == \A k \in 1..Len(seq) : ~IsCustom(seq[k].id)

-----------------------------------------------------------------------------
(* C1 *)

\* C1: after Tree::diff(T, W) with T.tag = W.tag and W without a name, T
\* has the State, tag and id it had, and as many children as W.children()
\* (the least that "its shape matches W.children()" asks for).
C1_StateKeptChildrenFit ==
    (IsDiff /\ OpT.tag = OpW.tag /\ ~IsCustom(OpW.id)) =>
        /\ tree.state = OpT.state
        /\ tree.tag = OpT.tag
        /\ tree.id = OpT.id
        /\ Len(tree.children) = Len(OpW.kids)

-----------------------------------------------------------------------------
(* C2 *)

\* C2: after Tree::diff(T, W) with T.tag # W.tag and W without a name,
\* T.state is the State W.state() built during the call, never a State that
\* existed before the call.
C2_MismatchGivesFreshState ==
    (IsDiff /\ OpT.tag # OpW.tag /\ ~IsCustom(OpW.id)) =>
        /\ FreshFor(tree.state, OpW)
        /\ (tree.state # StateNone => tree.state # OpT.state)

\* a stateful node was diffed against a stateful widget of another tag
C2_Witness ==
    /\ IsDiff /\ OpT.tag # OpW.tag /\ ~IsCustom(OpW.id)
    /\ OpT.state # StateNone
    /\ tree.state >= last.preNext

-----------------------------------------------------------------------------
(* C3 *)

\* C3: in a run made of reconciliation passes only, a widget that carries
\* the same name in two consecutive frames ends the later pass with the
\* State it ended the earlier one with.
C3_NamedStateSurvives ==
    (IsDiff /\ last.passes) =>
        \A n \in DOMAIN assoc :
            n \in DOMAIN last.preAssoc => assoc[n] = last.preAssoc[n]

-----------------------------------------------------------------------------
(* C4 *)

\* C4: after diff_children the child at index i is the node that was diffed
\* against (or created for) new_children[i], for every i.
C4_ChildrenFollowNewOrder ==
    IsChildren =>
        \A i \in 1..Len(NewChildren) :
            i <= Len(tree.children) /\ tree.children[i] = last.res[i]

-----------------------------------------------------------------------------
(* C5 *)

\* C5 as stated: a new child whose name is the name of an old sibling is
\* diffed against that sibling's node, whatever the sibling's old index.
C5_NamedMatchedAnyIndex ==
    IsChildren =>
        \A i \in 1..Len(NewChildren) : \A p \in 1..Len(OldChildren) :
            (IsCustom(NewChildren[i].id) /\ OldChildren[p].id = NewChildren[i].id)
                => last.match[i] = p

\* C5, amended: a new child whose name is the name of an old sibling with
\* an old index below new_children.len() (one the truncation keeps) is
\* diffed against that sibling's node, whatever the two indices are.
C5_NamedMatchedIfKept ==
    IsChildren =>
        \A i \in 1..Len(NewChildren) : \A p \in 1..Len(Kept) :
            (IsCustom(NewChildren[i].id) /\ Kept[p].id = NewChildren[i].id)
                => last.match[i] = p

\* a named new child met its old sibling at another index
C5_Witness ==
    /\ IsChildren
    /\ \E i \in 1..Len(NewChildren) : \E p \in 1..Len(Kept) :
          /\ IsCustom(NewChildren[i].id) /\ Kept[p].id = NewChildren[i].id
          /\ p # i /\ last.match[i] = p

-----------------------------------------------------------------------------
(* C6 *)

\* the new children without a name, and the old children without a name
UnnamedNew == Sorted({k \in 1..Len(NewChildren) : ~IsCustom(NewChildren[k].id)})
UnnamedOld == Sorted({k \in 1..Len(OldChildren) : ~IsCustom(OldChildren[k].id)})

\* the kept old children without a name, the names of the kept old children
UnnamedKept == Sorted({k \in 1..Len(Kept) : ~IsCustom(Kept[k].id)})
KeptNames == {NameOf(Kept[k].id) : k \in {j \in 1..Len(Kept) : IsCustom(Kept[j].id)}}

\* new child k is matched by name: the first of its name, and a kept old
\* child carries that name
ByName(k) ==
    /\ IsCustom(NewChildren[k].id)
    /\ NameOf(NewChildren[k].id) \in KeptNames
    /\ \A j \in 1..(k - 1) : NewChildren[j].id # NewChildren[k].id

\* the new children that are not matched by name
Remaining == Sorted({k \in 1..Len(NewChildren) : ~ByName(k)})

\* C6 as stated: the i-th new child without a name is diffed against the
\* i-th old child without a name.
C6_UnnamedPairedOff ==
    IsChildren =>
        \A k \in 1..Len(UnnamedNew) :
            k <= Len(UnnamedOld) => last.match[UnnamedNew[k]] = UnnamedOld[k]

\* C6, amended: the i-th new child that is not matched by name (one
\* without a name, or one whose name no kept old sibling carries) is diffed
\* against the i-th unnamed one of the old children kept by the truncation
\* to new_children.len(); when there is no such old child a node is created.
C6_RemainingPairedOff ==
    IsChildren =>
        \A k \in 1..Len(Remaining) :
            last.match[Remaining[k]] =
                IF k <= Len(UnnamedKept) THEN UnnamedKept[k] ELSE 0

\* an unnamed new child that stands behind a child matched by name was
\* diffed against an unnamed old child that stands behind a named one
C6_Witness ==
    /\ IsChildren
    /\ \E k \in 1..Len(Remaining) :
          /\ k <= Len(UnnamedKept)
          /\ ~IsCustom(NewChildren[Remaining[k]].id)
          /\ UnnamedKept[k] # k /\ Remaining[k] # k
          /\ last.match[Remaining[k]] = UnnamedKept[k]

-----------------------------------------------------------------------------
(* C7 *)

\* C7: for old and new children all without a name and equal in number,
\* diff_children leaves as many children; child i keeps its State when the
\* old tag at i is the new tag at i and else holds the State built for
\* new_children[i] during the call, with the new tag.
C7_UnnamedKeptByTag ==
    (/\ IsChildren /\ Len(OldChildren) = Len(NewChildren)
     /\ AllUnnamed(OldChildren) /\ AllUnnamed(NewChildren)) =>
        /\ Len(tree.children) = Len(NewChildren)
        /\ \A i \in 1..Len(NewChildren) :
              /\ tree.children[i].tag = NewChildren[i].tag
              /\ IF OldChildren[i].tag = NewChildren[i].tag
                 THEN tree.children[i].state = OldChildren[i].state
                 ELSE /\ FreshFor(tree.children[i].state, NewChildren[i])
                      /\ tree.children[i].state >= last.preNext

\* old tags [t1, t2, t1] against new tags [t1, t2, t3]: 0 and 1 kept, 2 rebuilt
C7_Witness ==
    /\ IsChildren /\ AllUnnamed(OldChildren) /\ NewChildren = <<U1, U2, U3>>
    /\ Len(OldChildren) = 3
    /\ OldChildren[1].tag = "t1" /\ OldChildren[2].tag = "t2" /\ OldChildren[3].tag = "t1"
    /\ OldChildren[1].state # StateNone /\ OldChildren[3].state # StateNone
    /\ tree.children[1].state = OldChildren[1].state
    /\ tree.children[2].state = OldChildren[2].state
    /\ tree.children[3].state >= last.preNext

-----------------------------------------------------------------------------
(* C8 *)

\* old children [Named(x), Unnamed(B)], new children [Unnamed(B'), Named(x)]
\* with B' of B's tag
Reordered(old, new) ==
    /\ Len(old) = 2 /\ Len(new) = 2
    /\ IsCustom(old[1].id) /\ ~IsCustom(old[2].id)
    /\ ~IsCustom(new[1].id) /\ new[2].id = old[1].id
    /\ new[1].tag = old[2].tag
    /\ new[1].kids = <<>> /\ new[2].kids = <<>>

\* C8 as stated: in that scenario diff_children leaves the State of x at
\* index 0 and the State of B at index 1.
C8_ReorderKeepsStates ==
    (IsChildren /\ Reordered(OldChildren, NewChildren)) =>
        /\ Len(tree.children) = 2
        /\ tree.children[1].state = OldChildren[1].state
        /\ tree.children[2].state = OldChildren[2].state

\* C8, amended: in that scenario, when the diff_children call is the one of
\* a reconciliation pass (take_all_named has put the State of x into NAMED),
\* the State of x is at index 0 and the State of B at index 1 afterwards.
C8_ReorderKeepsStatesInPass ==
    (/\ IsDiff /\ ~IsCustom(OpW.id) /\ OpW.tag = last.pre.tag
     /\ ~IsCustom(last.pre.id)
     /\ Reordered(last.pre.children, OpW.kids)) =>
        /\ Len(tree.children) = 2
        /\ tree.children[1].state = last.pre.children[1].state
        /\ tree.children[2].state = last.pre.children[2].state

\* the scenario in a pass, x and B with a State each
C8_Witness ==
    /\ IsDiff /\ ~IsCustom(OpW.id) /\ OpW.tag = last.pre.tag
    /\ ~IsCustom(last.pre.id)
    /\ Reordered(last.pre.children, OpW.kids)
    /\ last.pre.children[1].state # StateNone
    /\ last.pre.children[2].state # StateNone
    /\ last.taken.children[1].state = StateNone
    /\ tree.children[1].state = last.pre.children[1].state

-----------------------------------------------------------------------------
(* C9 *)

\* C9: after Tree::diff(T, W), T.tag = W.tag().
C9_TagFollowsWidget == IsDiff => tree.tag = OpW.tag

-----------------------------------------------------------------------------
(* C10 *)

-----------------------------------------------------------------------------
(* C11 *)

RECURSIVE StatesOf(_)
\* every State held somewhere in the tree t
StatesOf(t) == {t.state} \cup UNION {StatesOf(t.children[k]) : k \in 1..Len(t.children)}

RECURSIVE Strip(_)
\* the tree t without its States: tags, ids and shape
Strip(t) ==
    [tag |-> t.tag, id |-> t.id,
     children |-> [k \in 1..Len(t.children) |-> Strip(t.children[k])]]

\* W is named and NAMED holds no entry for its name
NamedMiss == IsDiff /\ IsCustom(OpW.id) /\ NameOf(OpW.id) \notin DOMAIN last.map

\* C11: when W is named and NAMED has no entry for its name, Tree::diff(T, W)
\* leaves nothing of T: the node has the tags, ids and shape of Tree::new(W),
\* its State is the one W.state() made in the call, and no State of T is
\* left anywhere in it, whether or not T.tag = W.tag().
C11_NamedMissRebuilds ==
    NamedMiss =>
        /\ Strip(tree) = Strip(TreeNew(OpW, Ctx).t)
        /\ FreshFor(tree.state, OpW)
        /\ StatesOf(tree) \cap StatesOf(OpT) \subseteq {StateNone}

\* a named widget without an entry met a node of its own tag that had a
\* State and a child with a State
C11_Witness ==
    /\ NamedMiss
    /\ OpT.tag = OpW.tag
    /\ OpT.state # StateNone
    /\ OpT.children # <<>>
    /\ OpT.children[1].state # StateNone
    /\ OpW.kids # <<>>
    /\ tree.state >= last.preNext

-----------------------------------------------------------------------------
(* C12.  Widget trees and lists in which a name occurs twice.              *)

\* the root widgets of a frame, with those that carry a name twice
RootsDup ==
    Roots \cup { Col(<<X1, X1>>), Col(<<X1, U2, X1>>), Col(<<X1, X2>>),
                 Col(<<Col(<<X1>>), X1>>) }

\* the lists handed to diff_children, with those that carry a name twice
ListsDup == Lists \cup { <<X1, X1>>, <<X1, X2>>, <<U1, X1, X1>> }

InitDup ==
    \E w \in RootsDup :
        \E r \in {Diff(TreeEmpty, w, [next |-> 1, named |-> EmptyNamed,
                                      dbg |-> FALSE, assoc |-> EmptyNamed,
                                      log |-> <<>>])} :
            /\ tree = r.t
            /\ next = r.c.next
            /\ NAMED = EmptyNamed
            /\ dbg = FALSE
            /\ assoc = r.c.assoc
            /\ steps = 0
            /\ last = NoLast
            /\ NoShell

NextDup ==
    \/ \E w \in RootsDup : Pass(w)
    \/ \E ws \in ListsDup : DiffChildrenRoot(ws)

SpecDup == InitDup /\ [][NextDup]_vars

RECURSIVE WidgetNames(_)
\* the names carried by the widget w and the widgets below it
WidgetNames(w) ==
    (IF IsCustom(w.id) THEN {NameOf(w.id)} ELSE {})
        \cup UNION {WidgetNames(w.kids[k]) : k \in 1..Len(w.kids)}

\* the names carried by the widgets the operation was given
GivenNames == UNION {WidgetNames(last.w[k]) : k \in 1..Len(last.w)}

RECURSIVE StateSeq(_)
RECURSIVE StateSeqAll(_)
\* the States of the nodes of t, parent first
StateSeq(t) == <<t.state>> \o StateSeqAll(t.children)
StateSeqAll(ts) == IF ts = <<>> THEN <<>> ELSE StateSeq(Head(ts)) \o StateSeqAll(Tail(ts))

\* the registry the operation started with
StartNamed == IF IsDiff THEN last.map ELSE last.preNamed

\* C12: Tree::diff removes the entry it matches from NAMED: after an
\* operation NAMED holds no entry for a name a given widget carries, no State
\* sits in two nodes of the tree, and of the children given under one name
\* only the first can hold the State of the entry, a later one holds a State
\* made in the call.
C12_EntryConsumedOnce ==
    (IsDiff \/ IsChildren) =>
        /\ GivenNames \cap DOMAIN NAMED = {}
        /\ \A i, j \in 1..Len(StateSeq(tree)) :
              (i # j /\ StateSeq(tree)[i] # StateNone) =>
                  StateSeq(tree)[i] # StateSeq(tree)[j]
        /\ IsChildren =>
              \A i, j \in 1..Len(NewChildren) :
                  (/\ i < j
                   /\ IsCustom(NewChildren[i].id)
                   /\ NewChildren[i].id = NewChildren[j].id) =>
                      FreshFor(last.res[j].state, NewChildren[j])

\* two children under one name met an entry of NAMED with a State: the first
\* holds it, the second a State made in the call
C12_Witness ==
    /\ IsChildren
    /\ Len(NewChildren) = 2
    /\ IsCustom(NewChildren[1].id)
    /\ NewChildren[1].id = NewChildren[2].id
    /\ NameOf(NewChildren[1].id) \in DOMAIN last.preNamed
    /\ last.preNamed[NameOf(NewChildren[1].id)].state # StateNone
    /\ last.res[1].state = last.preNamed[NameOf(NewChildren[1].id)].state
    /\ last.res[2].state >= last.preNext

-----------------------------------------------------------------------------
(* C13.  Widgets that carry an Id::unique(): Button and Svg store their id *)
(* and overwrite it in set_id; Svg keeps the default tag and state.        *)

Btn1 == Wdg("t1", Unique(1), <<>>)
Btn2 == Wdg("t1", Unique(2), <<>>)
Svg1 == Wdg(Stateless, Unique(3), <<>>)

\* the root widgets of a frame, with those that carry an Id::unique()
RootsUniq == Roots \cup { Btn1, Btn2, Svg1, Col(<<Btn1, U2>>), Col(<<Btn2, U2>>), Col(<<>>) }

\* the lists handed to diff_children, with widgets that carry an Id::unique()
ListsUniq == Lists \cup { <<Btn1>>, <<Btn2, U2>>, <<Svg1>> }

InitUniq ==
    \E w \in RootsUniq :
        \E r \in {Diff(TreeEmpty, w, [next |-> 1, named |-> EmptyNamed,
                                      dbg |-> FALSE, assoc |-> EmptyNamed,
                                      log |-> <<>>])} :
            /\ tree = r.t
            /\ next = r.c.next
            /\ NAMED = EmptyNamed
            /\ dbg = FALSE
            /\ assoc = r.c.assoc
            /\ steps = 0
            /\ last = NoLast
            /\ NoShell

NextUniq ==
    \/ \E w \in RootsUniq : Pass(w)
    \/ \E ws \in ListsUniq : DiffChildrenRoot(ws)

SpecUniq == InitUniq /\ [][NextUniq]_vars

\* Tree::diff took the tag_match branch without a name
TagMatchPath == IsDiff /\ ~IsCustom(OpW.id) /\ OpT.tag = OpW.tag

\* C13: on the tag-match path without a name, T.id and the id of W agree
\* after Tree::diff(T, W).
C13_IdsAgree == TagMatchPath => tree.id = last.out[1].id

\* the half that the code keeps: an id T already has is set on a W that
\* stores ids
C13_ExistingIdSetOnWidget ==
    (TagMatchPath /\ OpT.id # NoId /\ OpW.id # NoId) =>
        /\ tree.id = OpT.id
        /\ last.out[1].id = OpT.id

-----------------------------------------------------------------------------
(* C14 *)

\* the calls of Tree::diff and Widget::diff the operation made, in order
CallLog == last.log

\* C14: every Tree::diff(T, W) calls W.diff(T) exactly once, as its last
\* step: in the log of an operation each "diff" is followed at once by the
\* "hook" of the same widget and there is no other "hook"; the hook finds
\* the node with as many children as the widget has, and the root's hook
\* finds the State the root ends with.
C14_HookOncePerDiff ==
    (IsDiff \/ IsChildren) =>
        /\ Len(CallLog) % 2 = 0
        /\ \A k \in 1..Len(CallLog) :
              IF k % 2 = 1
              THEN /\ CallLog[k].ev = "diff"
                   /\ k + 1 <= Len(CallLog)
                   /\ CallLog[k + 1].ev = "hook"
                   /\ CallLog[k + 1].tag = CallLog[k].tag
                   /\ CallLog[k + 1].kids = CallLog[k].kids
              ELSE /\ CallLog[k].ev = "hook"
                   /\ CallLog[k].children = CallLog[k].kids
        /\ IsDiff =>
              /\ CallLog # <<>>
              /\ CallLog[1] = Call("diff", OpW, OpT)
              /\ CallLog[2].state = tree.state

\* a pass rebuilt the root for a named widget without an entry, and the hook
\* that followed found the rebuilt node and went on to the children
C14_Witness ==
    /\ NamedMiss
    /\ OpT.state # StateNone
    /\ OpW.kids # <<>>
    /\ CallLog[2].ev = "hook"
    /\ CallLog[2].state >= last.preNext
    /\ CallLog[2].state = tree.state
    /\ Len(CallLog) = 2 + 2 * Len(OpW.kids)

-----------------------------------------------------------------------------
(* C15 *)

RECURSIVE Paths(_)
\* the paths (child positions from the root) of the nodes of t
Paths(t) ==
    {<<>>} \cup UNION {{<<k>> \o p : p \in Paths(t.children[k])} : k \in 1..Len(t.children)}

\* the paths of the nodes of t that carry a name
NamedPaths(t) == {p \in Paths(t) : IsCustom(NodeAt(t, p).id)}

\* the trees a take_all_named result holds: the tree left behind and the
\* children moved into the records of the map
TakenTrees ==
    {last.taken} \cup
    UNION {{last.map[n].children[k][2] : k \in 1..Len(last.map[n].children)} :
              n \in DOMAIN last.map}

\* no two nodes of t carry the same name
NamesUnique(t) ==
    \A p, q \in NamedPaths(t) : NodeAt(t, p).id = NodeAt(t, q).id => p = q

\* C15: the map take_all_named returns holds, for every node of the tree that
\* carries a name, at any depth, the State the node had, under its name, and
\* every node that carries a name is left with State::None.
C15_TakeAllNamedTakesAll ==
    IsDiff =>
        /\ \A p \in NamedPaths(last.pre) :
              /\ NameOf(NodeAt(last.pre, p).id) \in DOMAIN last.map
              /\ last.map[NameOf(NodeAt(last.pre, p).id)].state = NodeAt(last.pre, p).state
        /\ \A t \in TakenTrees :
              \A p \in NamedPaths(t) : NodeAt(t, p).state = StateNone


\* the part of C15 for trees in which no name occurs twice
C15_TakesAllWhenNamesUnique ==
    (IsDiff /\ NamesUnique(last.pre)) =>
        /\ \A p \in NamedPaths(last.pre) :
              /\ NameOf(NodeAt(last.pre, p).id) \in DOMAIN last.map
              /\ last.map[NameOf(NodeAt(last.pre, p).id)].state = NodeAt(last.pre, p).state
        /\ \A t \in TakenTrees :
              \A p \in NamedPaths(t) : NodeAt(t, p).state = StateNone

-----------------------------------------------------------------------------
(* C16 *)

\* the 0-based positions of the direct children of node that carry no name
UnnamedPositions(node) ==
    {k - 1 : k \in {j \in 1..Len(node.children) : ~IsCustom(node.children[j].id)}}

\* the indices recorded in the child list recs of an entry of the map
RecordedIndices(recs) == {recs[k][1] : k \in 1..Len(recs)}

\* C16: in the map take_all_named returns, the child list of a named node
\* has one record per direct child without a name and none for a direct
\* child with a name; the index of a record is the position of the child in
\* the node's children list and the record holds that child; the names of a
\* named node and of a named node below one of its unnamed children are
\* both keys of the map.  Stated for trees in which no name occurs twice.
C16_RecordsIndexedByPosition ==
    (IsDiff /\ NamesUnique(last.pre)) =>
        \A p \in NamedPaths(last.pre) :
            LET node == NodeAt(last.pre, p)
                n == NameOf(node.id)
            IN /\ n \in DOMAIN last.map
               /\ Len(last.map[n].children) = Cardinality(UnnamedPositions(node))
               /\ RecordedIndices(last.map[n].children) = UnnamedPositions(node)
               /\ \A k \in 1..Len(last.map[n].children) :
                     LET rec == last.map[n].children[k]
                     IN /\ rec[1] + 1 \in 1..Len(node.children)
                        /\ Strip(rec[2]) = Strip(node.children[rec[1] + 1])

\* the part of C16 that leaves the value of the index aside: one record per
\* direct child without a name, and every named node is a key
C16_OneRecordPerUnnamedChild ==
    (IsDiff /\ NamesUnique(last.pre)) =>
        \A p \in NamedPaths(last.pre) :
            /\ NameOf(NodeAt(last.pre, p).id) \in DOMAIN last.map
            /\ Len(last.map[NameOf(NodeAt(last.pre, p).id)].children)
                  = Cardinality(UnnamedPositions(NodeAt(last.pre, p)))

-----------------------------------------------------------------------------
(* C17 *)

\* the nodes take_all_named popped, in order
Visits == last.visits

\* the path q lies at or below the path p
Below(p, q) == Len(q) >= Len(p) /\ SubSeq(q, 1, Len(p)) = p

\* C17: take_all_named moves an unnamed child of a named node into the
\* record of its parent only after every node of the child's subtree was
\* popped, and pops no node of the subtree afterwards; the subtree moved has
\* State::None in every node that carries a name.
C17_MovedAfterSubtreeVisited ==
    IsDiff =>
        /\ \A m \in 1..Len(Visits) :
              Visits[m].did = "moved" =>
                  /\ \A q \in Paths(last.pre) :
                        Below(Visits[m].path, q) =>
                            \E k \in 1..m : Visits[k].path = q /\ (q # Visits[m].path => k < m)
                  /\ \A k \in (m + 1)..Len(Visits) : ~Below(Visits[m].path, Visits[k].path)
        /\ \A n \in DOMAIN last.map :
              \A k \in 1..Len(last.map[n].children) :
                  \A p \in NamedPaths(last.map[n].children[k][2]) :
                      NodeAt(last.map[n].children[k][2], p).state = StateNone

\* a child without a name was moved whose subtree holds a named node that
\* had a State, taken before the move
C17_Witness ==
    /\ IsDiff
    /\ \E m \in 1..Len(Visits) :
          /\ Visits[m].did = "moved"
          /\ \E k \in 1..(m - 1) :
                /\ Visits[k].did = "taken"
                /\ Below(Visits[m].path, Visits[k].path)
                /\ NodeAt(last.pre, Visits[k].path).state # StateNone

-----------------------------------------------------------------------------
(* diff_children_custom_with_search(current_children, new_children, diff,  *)
(* maybe_changed, new_state) with diff = Tree::diff and new_state =        *)
(* Tree::new, the closures of diff_children.  maybe_changed is the set     *)
(* flagged of the indices it answers true for.                             *)

\* maybe_changed(i)
MaybeChanged(flagged, i) == i \in flagged

\* a slip: the scan for a flagged index is left out, the delta goes to 0
DifferenceIndexAlwaysFront(flagged, len) == 0

\* let difference_index = if first_maybe_changed { 0 } else {
\*     (1..current_children.len()).find(|&i| maybe_changed(i)).unwrap_or(0) }
DifferenceIndex(flagged, len) ==
    IF MaybeChanged(flagged, 0)
    THEN 0
    ELSE LET hits == {i \in 1..(len - 1) : MaybeChanged(flagged, i)}
         IN IF hits = {} THEN 0 ELSE CHOOSE i \in hits : \A j \in hits : i <= j

\* !first_maybe_changed && last_maybe_changed
DeltaAtBack(flagged, len) ==
    ~MaybeChanged(flagged, 0) /\ MaybeChanged(flagged, len - 1)

\* the block under current_children.len() > new_children.len(); splice
\* panics when the end of its range lies beyond the length
SearchShrink(children, n, flagged) ==
    IF DeltaAtBack(flagged, Len(children))
    THEN [children |-> SubSeq(children, 1, n), panic |-> FALSE]
    ELSE LET di == DifferenceIndex(flagged, Len(children))
             delta == Len(children) - n
         IN IF di + delta > Len(children)
            THEN [children |-> children, panic |-> TRUE]
            ELSE [children |-> SubSeq(children, 1, di)
                                 \o SubSeq(children, di + delta + 1, Len(children)),
                  panic |-> FALSE]

\* the block under current_children.len() < new_children.len()
SearchGrow(children, ws, flagged, ctx) ==
    LET len == Len(children)
        delta == Len(ws) - len
        di == DifferenceIndex(flagged, len)
        AtBack(r) == [children |-> children \o r.ts, c |-> r.c]
        At(r) == [children |-> SubSeq(children, 1, di) \o r.ts
                                  \o SubSeq(children, di + 1, len),
                  c |-> r.c]
    IN IF DeltaAtBack(flagged, len)
       THEN AtBack(NewAll(SubSeq(ws, len + 1, Len(ws)), <<>>, ctx))
       ELSE At(NewAll(SubSeq(ws, di + 1, di + delta), <<>>, ctx))

RECURSIVE ZipDiff(_, _, _, _)
\* for (child_state, new) in current_children.iter_mut().zip(new_children.iter_mut())
ZipDiff(children, ws, i, ctx) ==
    IF i > Len(children) \/ i > Len(ws)
    THEN [children |-> children, ws |-> ws, c |-> ctx]
    ELSE LET Rest(r) == ZipDiff([children EXCEPT ![i] = r.t], [ws EXCEPT ![i] = r.w],
                                i + 1, r.c)
         IN Rest(Diff(children[i], ws[i], ctx))

\* a slip: the early return leaves current_children as it was
SearchClearKeepsAll(children, ws, ctx) ==
    [children |-> children, ws |-> ws, c |-> ctx, sized |-> children, panic |-> FALSE]

\* if new_children.is_empty() { current_children.clear(); return; }
SearchClear(children, ws, ctx) ==
    [children |-> <<>>, ws |-> ws, c |-> ctx, sized |-> <<>>, panic |-> FALSE]

\* a slip: the nodes made for an empty current_children are diffed as well
SearchFillThenDiffs(ws, ctx) ==
    LET Diffed(sized, r) == [children |-> r.children, ws |-> r.ws, c |-> r.c,
                             sized |-> sized, panic |-> FALSE]
        Made(n) == Diffed(n.ts, ZipDiff(n.ts, ws, 1, n.c))
    IN Made(NewAll(ws, <<>>, ctx))

\* if current_children.is_empty() {
\*     current_children.extend(new_children.iter().map(new_state)); return; }
SearchFill(ws, ctx) ==
    LET Made(n) == [children |-> n.ts, ws |-> ws, c |-> n.c, sized |-> n.ts,
                    panic |-> FALSE]
    IN Made(NewAll(ws, <<>>, ctx))

\* diff_children_custom_with_search; sized is current_children as the
\* length blocks leave it, before the diffs
DiffChildrenCustomWithSearch(children, ws, flagged, ctx) ==
    LET Diffed(sized, r) == [children |-> r.children, ws |-> r.ws, c |-> r.c,
                             sized |-> sized, panic |-> FALSE]
        Zip(g) == Diffed(g.children, ZipDiff(g.children, ws, 1, g.c))
        Shrunk(s) ==
            IF s.panic
            THEN [children |-> children, ws |-> ws, c |-> ctx, sized |-> children,
                  panic |-> TRUE]
            ELSE Zip([children |-> s.children, c |-> ctx])
    IN IF ws = <<>>
       THEN SearchClear(children, ws, ctx)
       ELSE IF children = <<>>
       THEN SearchFill(ws, ctx)
       ELSE IF Len(children) > Len(ws)
       THEN Shrunk(SearchShrink(children, Len(ws), flagged))
       ELSE IF Len(children) < Len(ws)
       THEN Zip(SearchGrow(children, ws, flagged, ctx))
       ELSE Zip([children |-> children, c |-> ctx])

\* the lists handed to diff_children_custom_with_search: children without a
\* name, of two state types, up to four of them
SearchLists ==
    { <<>>, <<U1>>, <<U2, U1>>, <<U1, U2, U1>>, <<U2, U2, U1>>,
      <<U1, U2, U2, U1>>, <<U2, U1, U1, U2>> }

\* the answers of the maybe_changed closures
SearchFlags == { {}, {0}, {1}, {2}, {3}, {0, 3}, {1, 3}, {2, 3}, {1, 2} }

\* the most calls in a run of SpecSearch
MaxSearches == 2

\* an empty list of children: Tree::empty()
InitSearch ==
    /\ tree = TreeEmpty
    /\ next = 1
    /\ NAMED = EmptyNamed
    /\ dbg = FALSE
    /\ assoc = EmptyNamed
    /\ steps = 0
    /\ last = NoLast
    /\ NoShell

\* diff_children_custom_with_search(&mut tree.children, ws, .., flagged, ..)
Search(ws, flagged) ==
    /\ steps < MaxSearches
    /\ UNCHANGED shellVars
    /\ steps' = steps + 1
    /\ \E r \in {DiffChildrenCustomWithSearch(tree.children, ws, flagged, Ctx)} :
          /\ tree' = [tree EXCEPT !.children = r.children]
          /\ NAMED' = r.c.named
          /\ next' = r.c.next
          /\ dbg' = r.c.dbg
          /\ assoc' = r.c.assoc
          /\ last' = [NoLast EXCEPT !.op = "search", !.pre = tree, !.w = ws,
                                    !.out = r.ws, !.preNext = next,
                                    !.preNamed = NAMED, !.preAssoc = assoc,
                                    !.taken = tree, !.passes = FALSE,
                                    !.log = r.c.log,
                                    !.search = [flagged |-> flagged, sized |-> r.sized,
                                                panic |-> r.panic]]

NextSearch == \E ws \in SearchLists : \E flagged \in SearchFlags : Search(ws, flagged)

SpecSearch == InitSearch /\ [][NextSearch]_vars

-----------------------------------------------------------------------------
(* C18 *)

\* the state came out of diff_children_custom_with_search
IsSearch == last.op = "search"

\* C18: diff_children_custom_with_search with empty new_children leaves
\* current_children empty whatever it held, and so does a further call with
\* empty new_children, whatever maybe_changed answers.
C18_EmptyNewClears ==
    (IsSearch /\ last.w = <<>>) =>
        /\ tree.children = <<>>
        /\ ~last.search.panic
        /\ \A flagged \in SearchFlags :
              DiffChildrenCustomWithSearch(tree.children, <<>>, flagged, Ctx).children = <<>>

\* four children with States were cleared by a call whose maybe_changed
\* would have put the delta in the middle
C18_Witness ==
    /\ IsSearch /\ last.w = <<>>
    /\ Len(last.pre.children) = 4
    /\ last.pre.children[1].state # StateNone
    /\ last.search.flagged = {2}
    /\ tree.children = <<>>

-----------------------------------------------------------------------------
(* C19 *)

\* C19: diff_children_custom_with_search with empty current_children and
\* non-empty new_children yields new_children.len() nodes, node i being
\* new_state(new_children[i]), and calls no diff.
C19_EmptyCurrentFills ==
    (IsSearch /\ last.pre.children = <<>> /\ last.w # <<>>) =>
        /\ Len(tree.children) = Len(last.w)
        /\ tree.children = NewAll(last.w, <<>>, [Ctx EXCEPT !.next = last.preNext]).ts
        /\ \A i \in 1..Len(last.w) :
              /\ tree.children[i].tag = last.w[i].tag
              /\ tree.children[i].id = last.w[i].id
              /\ FreshFor(tree.children[i].state, last.w[i])
        /\ last.log = <<>>
        /\ ~last.search.panic

\* four nodes were made for an empty current_children
C19_Witness ==
    /\ IsSearch /\ last.pre.children = <<>>
    /\ Len(last.w) = 4
    /\ Len(tree.children) = 4
    /\ tree.children[4].state >= last.preNext
    /\ last.log = <<>>

-----------------------------------------------------------------------------
(* C20 *)

\* current_children before the call, its length, that of new_children
SearchOld == last.pre.children
SearchFlagged == last.search.flagged
Sized == last.search.sized

\* both lists are non-empty and their lengths differ
LengthsDiffer ==
    /\ IsSearch
    /\ SearchOld # <<>>
    /\ last.w # <<>>
    /\ Len(SearchOld) # Len(last.w)

\* where the claim puts the delta: at the "back", at the "front", at an
\* "interior" index, or "open" when no child is flagged, a case it leaves out
ClaimedPlace ==
    IF 0 \in SearchFlagged THEN "front"
    ELSE IF (Len(SearchOld) - 1) \in SearchFlagged THEN "back"
    ELSE IF \E i \in 1..(Len(SearchOld) - 1) : i \in SearchFlagged THEN "interior"
    ELSE "open"

\* the first flagged interior index
FirstFlaggedInterior ==
    CHOOSE i \in 1..(Len(SearchOld) - 1) :
        i \in SearchFlagged /\ \A j \in 1..(i - 1) : j \notin SearchFlagged

\* Sized is SearchOld with the run of delta children at index d taken out
RunRemovedAt(d) ==
    LET delta == Len(SearchOld) - Len(last.w)
    IN Sized = SubSeq(SearchOld, 1, d) \o SubSeq(SearchOld, d + delta + 1, Len(SearchOld))

\* Sized is SearchOld with a run of delta new nodes put in at index d, each
\* made by new_state of the new child at its position
RunInsertedAt(d) ==
    LET delta == Len(last.w) - Len(SearchOld)
    IN /\ Len(Sized) = Len(last.w)
       /\ SubSeq(Sized, 1, d) = SubSeq(SearchOld, 1, d)
       /\ SubSeq(Sized, d + delta + 1, Len(Sized)) = SubSeq(SearchOld, d + 1, Len(SearchOld))
       /\ \A k \in (d + 1)..(d + delta) :
             /\ Sized[k].tag = last.w[k].tag
             /\ FreshFor(Sized[k].state, last.w[k])

\* the diff closure ran once on each pair (current_children[i], new_children[i])
\* (the children have no children of their own: two log entries a pair)
DiffedPairwise ==
    /\ Len(last.log) = 2 * Len(last.w)
    /\ Len(Sized) = Len(last.w)
    /\ \A i \in 1..Len(last.w) : last.log[2 * i - 1] = Call("diff", last.w[i], Sized[i])

\* the delta sits where the claim says
PlacedAsClaimed ==
    LET d == IF ClaimedPlace = "front" THEN 0
             ELSE IF ClaimedPlace = "interior" THEN FirstFlaggedInterior
             ELSE IF Len(SearchOld) > Len(last.w) THEN Len(last.w)
             ELSE Len(SearchOld)
    IN ClaimedPlace # "open" =>
          IF Len(SearchOld) > Len(last.w) THEN RunRemovedAt(d) ELSE RunInsertedAt(d)

\* C20: with both lists non-empty and of different lengths,
\* diff_children_custom_with_search removes or inserts the delta as one run:
\* at the back when the first old child is not flagged and the last is, at
\* index 0 when the first is flagged, else at the first flagged interior
\* index; then it applies diff once to each pair.
C20_DeltaPlacedThenDiffed ==
    LengthsDiffer =>
        /\ ~last.search.panic
        /\ PlacedAsClaimed
        /\ DiffedPairwise

\* the part of C20 for the calls that return
C20_PlacedWhenReturned ==
    (LengthsDiffer /\ ~last.search.panic) =>
        /\ PlacedAsClaimed
        /\ DiffedPairwise

-----------------------------------------------------------------------------
(* run_instance (sctk/src/application.rs).  Its locals travel as a record  *)
(* a; a handler returns the record as it leaves them.  a.sent are the       *)
(* events it posts through ev_proxy, a.flows what it sends on              *)
(* control_sender, a.seen the record of what the application was handed.   *)
(* Seats, cursors, the clipboard, accessibility and subsurfaces are left   *)
(* out.                                                                    *)

\* HashMap::retain on a map kept as a function
MapRetain(m, keep) == [x \in keep \cap DOMAIN m |-> m[x]]

\* IcedSctkEvent::NewEvents(start_cause)
NewEvents(a, start_cause) ==
    [a EXCEPT !.redraw_pending = start_cause \in {"Init", "Poll", "ResumeTimeReached"}]

\* IcedSctkEvent::UserEvent(message)
UserEvent(a, e) == [a EXCEPT !.messages = Append(@, e)]

\* WindowEventVariant::Created, LayerSurfaceEventVariant::Created,
\* PopupEventVariant::Created, SctkEvent::SessionLockSurfaceCreated
Created(a, e) ==
    [a EXCEPT !.surface_ids = MapInsert(@, e.o, Wrapper(e.kind, e.n)),
              !.states = MapInsert(@, e.n, StateNew(Wrapper(e.kind, e.n)))]

\* a Close or Done that takes its exit: break 'main
DoneExit(a, kind) ==
    IF kind \in {"Window", "LayerSurface"} /\ a.exit_on_close_request
       /\ DOMAIN a.states = {}
    THEN [a EXCEPT !.instance = "finished"]
    ELSE a

\* the removals of a Close or Done, once surface_ids.remove found the surface
DoneRemoveKeepsInterface(a, o) ==
    [a EXCEPT !.surface_ids = MapRemove(@, o),
              !.auto_size_surfaces = MapRemove(@, a.surface_ids[o]),
              !.states = MapRemove(@, a.surface_ids[o].inner)]

DoneRemove(a, o) ==
    [a EXCEPT !.surface_ids = MapRemove(@, o),
              !.auto_size_surfaces = MapRemove(@, a.surface_ids[o]),
              !.interfaces = @ \ {a.surface_ids[o].inner},
              !.states = MapRemove(@, a.surface_ids[o].inner)]

\* WindowEventVariant::Close, LayerSurfaceEventVariant::Done,
\* PopupEventVariant::Done, SctkEvent::SessionLockSurfaceDone
Done(a, e) ==
    IF e.o \in DOMAIN a.surface_ids
    THEN DoneExit(DoneRemove(a, e.o), e.kind)
    ELSE a

\* build_user_interface: the view is laid out again for an autosize surface
\* (layout: the size it comes to is not the size on record), and a Size
\* action is posted when the record is dirty
BuildUserInterface(a, id, layout) ==
    IF id \in DOMAIN a.auto_size_surfaces
    THEN [a EXCEPT !.auto_size_surfaces[id] = @ \/ layout,
                   !.sent = IF (a.auto_size_surfaces[id] \/ layout)
                               /\ id.kind \in {"LayerSurface", "Window", "Popup"}
                            THEN Append(@, Ev("Size", id.kind, NoObject, id.inner, FALSE))
                            ELSE @]
    ELSE a

\* the interface of a Configure: built when the event says first
ConfigureBuilds(a, e, id, layout) ==
    IF e.flag
    THEN [BuildUserInterface(a, id, layout) EXCEPT !.interfaces = @ \cup {id.inner}]
    ELSE a

\* a Configure for a surface that surface_ids does not have: if let
\* Some(id) = surface_ids.get(..) without an else
ConfigureUnknownExits(a, e) == [a EXCEPT !.instance = "finished"]

ConfigureUnknown(a, e) == a

\* WindowEventVariant::Configure, LayerSurfaceEventVariant::Configure,
\* PopupEventVariant::Configure, SctkEvent::SessionLockSurfaceConfigure.
\* nd.resized: set_logical_size changes the size; nd.differs: the size
\* configured is not the autosize on record
Configure(a, e, nd) ==
    IF e.o \notin DOMAIN a.surface_ids THEN ConfigureUnknown(a, e)
    ELSE IF a.surface_ids[e.o].inner \notin DOMAIN a.states THEN a
    ELSE LET Resized(id) ==
                [a EXCEPT !.states[id.inner].surface = TRUE,
                          !.states[id.inner].viewport_changed = @ \/ nd.resized,
                          !.auto_size_surfaces =
                              IF id \in DOMAIN @ /\ e.kind # "SessionLock"
                              THEN [@ EXCEPT ![id] =
                                      IF e.kind = "Popup"
                                      THEN @ \/ e.flag \/ nd.differs
                                      ELSE e.flag \/ nd.differs]
                              ELSE @]
         IN ConfigureBuilds(Resized(a.surface_ids[e.o]), e, a.surface_ids[e.o], nd.layout)

\* PopupEventVariant::Size
Size(a, e, nd) ==
    IF e.o \notin DOMAIN a.surface_ids THEN a
    ELSE IF a.surface_ids[e.o].inner \notin DOMAIN a.states THEN a
    ELSE LET id == a.surface_ids[e.o]
         IN [a EXCEPT !.states[id.inner].viewport_changed = @ \/ nd.resized,
                      !.auto_size_surfaces =
                          IF id \in DOMAIN @ THEN [@ EXCEPT ![id] = nd.differs] ELSE @]

\* WindowEventVariant::ScaleFactorChanged and those of layer surfaces and popups
ScaleFactorChanged(a, e, nd) ==
    IF e.o \notin DOMAIN a.surface_ids THEN a
    ELSE IF a.surface_ids[e.o].inner \notin DOMAIN a.states THEN a
    ELSE [a EXCEPT !.states[a.surface_ids[e.o].inner].viewport_changed = @ \/ nd.resized]

\* the wl_surfaces of the drag icons
DndObjects(a) == {o \in DOMAIN a.surface_ids : a.surface_ids[o].kind = "Dnd"}

\* DataSourceEvent::DndFinished, DataSourceEvent::DndCancelled
DndFinished(a) ==
    [a EXCEPT !.surface_ids = MapRetain(@, DOMAIN @ \ DndObjects(a)),
              !.interfaces = @ \ {a.surface_ids[o].inner : o \in DndObjects(a)},
              !.states = MapRetain(@, DOMAIN @ \ {a.surface_ids[o].inner : o \in DndObjects(a)})]

\* user_interface.draw and compositor.present of the surface n
Drawn(a, n, by) == [a EXCEPT !.seen.drawn = Append(@, [n |-> n, by |-> by])]

\* IcedSctkEvent::SctkEvent(event): pushed on sctk_events, then matched
SctkEvent(a, e, nd) ==
    LET Pushed == [a EXCEPT !.sctk_events = Append(@, e)]
    IN CASE e.t = "Created" -> Created(Pushed, e)
         [] e.t \in {"Close", "Done"} -> Done(Pushed, e)
         [] e.t = "Configure" -> Configure(Pushed, e, nd)
         [] e.t = "Size" -> Size(Pushed, e, nd)
         [] e.t = "ScaleFactorChanged" -> ScaleFactorChanged(Pushed, e, nd)
         [] e.t \in {"DndFinished", "DndCancelled"} -> DndFinished(Pushed)
         [] OTHER -> Pushed

\* the one draw of a drag icon
DndDrawn(a, n) == Drawn(a, n, "DndSurfaceCreated")

\* IcedSctkEvent::DndSurfaceCreated(wl_surface, dnd_icon, origin_id).
\* nd.fit: the icon's layout is "zero" wide or high, "large" for its origin,
\* or "ok"
DndSurfaceCreated(a, e, nd) ==
    IF nd.fit # "ok" THEN a
    ELSE LET Built(b) ==
                [b EXCEPT !.surface_ids = MapInsert(@, e.o, Wrapper("Dnd", e.n)),
                          !.states = MapInsert(@, e.n,
                              [StateNew(Wrapper("Dnd", e.n)) EXCEPT !.surface = TRUE]),
                          !.interfaces = @ \cup {e.n}]
         IN Built(DndDrawn(BuildUserInterface(a, Wrapper("Dnd", e.n), nd.layout), e.n))

\* IcedSctkEvent::Frame(surface, time) and State::set_frame: the time the
\* loop hands over is always 0, for which set_frame sets frame_pending
Frame(a, e, nd) ==
    IF e.o \notin DOMAIN a.surface_ids THEN a
    ELSE IF a.surface_ids[e.o].inner \notin DOMAIN a.states THEN a
    ELSE [a EXCEPT !.states[a.surface_ids[e.o].inner].frame_pending = TRUE]

\* a RedrawRequested that finds no compositor surface: error!("missing surface!")
RedrawDropsInterface(a, id) == [a EXCEPT !.interfaces = @ \ {id.inner}]

\* the draw of a RedrawRequested: the interface goes back into interfaces and
\* the compositor surface back into the state
RedrawPresentsOnly(a, id) ==
    [a EXCEPT !.interfaces = @ \ {id.inner},
              !.states[id.inner].viewport_changed = FALSE,
              !.states[id.inner].frame_pending = FALSE]

RedrawDraws(a, id) ==
    Drawn([a EXCEPT !.states[id.inner].viewport_changed = FALSE,
                    !.states[id.inner].frame_pending = FALSE],
          id.inner, "RedrawRequested")

\* the surfaces a RedrawRequested turns away
RedrawSkips(id) == id.kind = "Dnd"

\* IcedSctkEvent::RedrawRequested(object_id)
RedrawRequested(a, e) ==
    IF e.o \notin DOMAIN a.surface_ids THEN a
    ELSE IF RedrawSkips(a.surface_ids[e.o]) THEN a
    ELSE IF a.surface_ids[e.o].inner \notin a.interfaces THEN a
    ELSE IF a.surface_ids[e.o].inner \notin DOMAIN a.states
         THEN RedrawDropsInterface(a, a.surface_ids[e.o])
    ELSE IF ~a.states[a.surface_ids[e.o].inner].surface
         THEN RedrawDropsInterface(a, a.surface_ids[e.o])
    ELSE RedrawDraws(a, a.surface_ids[e.o])

\* IcedSctkEvent::LoopDestroyed: panic!("Loop destroyed")
LoopDestroyed(a) == [a EXCEPT !.instance = "panicked"]

-----------------------------------------------------------------------------
(* IcedSctkEvent::MainEventsCleared.  Its inputs nd: nd.order, the order   *)
(* in which the HashMap surface_ids is iterated; nd.outdated, the surfaces *)
(* whose interface comes back Outdated from update; nd.produced, those     *)
(* whose interface pushes a message; nd.cmds, the actions of the Command   *)
(* Application::update returns; nd.request, the redraw_request of an       *)
(* interface that is redrawn; nd.wait, whether a control_flow_timeout is   *)
(* set.                                                                    *)

\* event_is_for_all_surfaces
EventIsForAllSurfaces(evt) == evt.t \in {"DndFinished", "DndCancelled"}

\* event_is_for_surface: of the seat events, those of touch are kept; they
\* go by the surface they name, as window, layer surface and popup events do
EventIsForSurface(evt, object_id) ==
    CASE evt.t \in {"DndFinished", "DndCancelled"} -> TRUE
      [] evt.t \in {"SessionLocked", "SessionLockFinished", "SessionUnlocked"} -> FALSE
      [] OTHER -> evt.o = object_id

\* Vec::remove(i) with a 0-based i
VecRemove(s, i) == SubSeq(s, 1, i) \o SubSeq(s, i + 2, Len(s))

\* the while loop that fills filtered_sctk from sctk_events, i 0-based
RECURSIVE FilterLoop(_, _, _, _)

FilterLoopPushesFront(q, i, object_id, filtered) ==
    IF i >= Len(q) THEN [q |-> q, filtered |-> filtered]
    ELSE IF EventIsForAllSurfaces(q[i + 1])
         THEN FilterLoop(q, i + 1, object_id, <<q[i + 1]>> \o filtered)
    ELSE IF EventIsForSurface(q[i + 1], object_id)
         THEN FilterLoop(VecRemove(q, i), i, object_id, <<q[i + 1]>> \o filtered)
    ELSE FilterLoop(q, i + 1, object_id, filtered)

FilterLoop(q, i, object_id, filtered) ==
    IF i >= Len(q) THEN [q |-> q, filtered |-> filtered]
    ELSE IF EventIsForAllSurfaces(q[i + 1])
         THEN FilterLoop(q, i + 1, object_id, Append(filtered, q[i + 1]))
    ELSE IF EventIsForSurface(q[i + 1], object_id)
         THEN FilterLoop(VecRemove(q, i), i, object_id, Append(filtered, q[i + 1]))
    ELSE FilterLoop(q, i + 1, object_id, filtered)

\* SctkEvent::to_native: the native events of an event, in order
ToNative(evt) == <<evt>>

RECURSIVE FlatMapToNative(_)

FlatMapToNative(events) ==
    IF events = <<>> THEN <<>>
    ELSE ToNative(Head(events)) \o FlatMapToNative(Tail(events))

\* runtime.broadcast(event, status) for each of events, on behalf of object_id
Broadcast(a, object_id, events) ==
    [a EXCEPT !.seen.broadcast =
        @ \o [k \in 1..Len(events) |-> [o |-> object_id, e |-> events[k]]]]

\* the surfaces the first for loop passes over: the drag icons
EventsLoopSkipsNone(surface_id) == FALSE

EventsLoopSkips(surface_id) == surface_id.kind = "Dnd"

\* the body of the first for loop over surface_ids, for one surface
SurfaceEvents(a, object_id, needs_update, nd) ==
    LET surface_id == a.surface_ids[object_id]
        Same == [a |-> a, needs_update |-> needs_update]
        Routed(f) ==
            IF surface_id.inner \notin a.interfaces
            THEN [a |-> [a EXCEPT !.sctk_events = f.q], needs_update |-> needs_update]
            ELSE LET state == a.states[surface_id.inner]
                     msgs == IF object_id \in nd.produced
                             THEN Append(a.messages, "m") ELSE a.messages
                     update == \/ msgs # <<>>
                               \/ object_id \in nd.outdated
                               \/ state.first
                               \/ f.q # <<>> \/ FlatMapToNative(f.filtered) # <<>>
                               \/ state.viewport_changed
                     b == Broadcast(a, object_id, FlatMapToNative(f.filtered))
                 IN [a |-> [b EXCEPT !.sctk_events = f.q,
                                     !.messages = msgs,
                                     !.states[surface_id.inner] =
                                        IF a.redraw_pending \/ update
                                        THEN [state EXCEPT
                                                !.needs_redraw = state.frame_pending \/ update,
                                                !.first = FALSE]
                                        ELSE state],
                     needs_update |-> update]
    IN IF EventsLoopSkips(surface_id) THEN Same
       ELSE IF surface_id.inner \notin DOMAIN a.states THEN Same
       ELSE Routed(FilterLoop(a.sctk_events, 0, object_id, <<>>))

\* the first for loop over surface_ids, from the k-th surface of the order on
RECURSIVE EventsLoop(_, _, _, _)

EventsLoop(r, order, k, nd) ==
    IF k > Len(order) THEN r
    ELSE EventsLoop(SurfaceEvents(r.a, order[k], r.needs_update, nd), order, k + 1, nd)

\* run_command: the actions of a Command go out through the proxy; the
\* builder of an autosize surface is measured and put on record first
RECURSIVE RunCommand(_, _)

RunCommand(a, cmds) ==
    IF cmds = <<>> THEN a
    ELSE RunCommand(
            [a EXCEPT !.sent = Append(@, Head(cmds)),
                      !.unique = IF Head(cmds).n = Native(@ + 1) THEN @ + 1 ELSE @,
                      !.auto_size_surfaces =
                          IF Head(cmds).t = "Create" /\ Head(cmds).flag
                          THEN MapInsert(@, Wrapper(Head(cmds).kind, Head(cmds).n), FALSE)
                          ELSE @],
            Tail(cmds))

\* update: every message goes through Application::update, and the Command
\* it returns through run_command
Update(a, cmds) ==
    IF a.messages = <<>> THEN a
    ELSE [RunCommand(a, cmds) EXCEPT !.messages = <<>>]

\* build_user_interfaces: one interface for each cache of pure_states, in
\* the order of the ids; states.get(&id).unwrap() panics on a cache without
\* a state
RECURSIVE BuildLoop(_, _, _, _)

BuildLoop(a, pure_states, k, layout) ==
    IF k > a.unique THEN a
    ELSE IF Native(k) \in pure_states
         THEN BuildLoop(
                [BuildUserInterface(a, a.states[Native(k)].wrapper, layout)
                    EXCEPT !.interfaces = @ \cup {Native(k)}],
                pure_states, k + 1, layout)
    ELSE BuildLoop(a, pure_states, k + 1, layout)

BuildUserInterfaces(a, pure_states, layout) ==
    IF pure_states \subseteq DOMAIN a.states
    THEN BuildLoop([a EXCEPT !.interfaces = {}], pure_states, 1, layout)
    ELSE [a EXCEPT !.instance = "panicked"]

\* the surfaces whose state asks for a redraw
NeedsRedraw(a) ==
    {a.surface_ids[o].inner : o \in {x \in DOMAIN a.surface_ids :
        /\ a.surface_ids[x].inner \in DOMAIN a.states
        /\ a.states[a.surface_ids[x].inner].needs_redraw}}

\* if needs_update { .. }: the interfaces become caches, the application is
\* updated for each surface that asks for a redraw, the interfaces are built
\* again
UpdateInterfaces(a, nd) ==
    IF NeedsRedraw(a) = {}
    THEN BuildUserInterfaces(a, a.interfaces, nd.layout)
    ELSE BuildUserInterfaces(Update(a, nd.cmds), a.interfaces \cup NeedsRedraw(a),
                             nd.layout)

\* the ControlFlow sent for a surface that is redrawn
Flow(nd, needs_update) ==
    CASE nd.request = "NextFrame" -> "Poll"
      [] nd.request = "At" -> "WaitUntil"
      [] OTHER -> IF needs_update THEN "Poll" ELSE "Wait"

\* the body of the second for loop over surface_ids, for one surface: the
\* core RedrawRequested event goes to the interface and a
\* IcedSctkEvent::RedrawRequested is posted
SurfaceRedraw(a, object_id, needs_update, nd) ==
    LET surface_id == a.surface_ids[object_id]
    IN IF surface_id.inner \notin DOMAIN a.states THEN a
       ELSE IF ~a.states[surface_id.inner].needs_redraw THEN a
       ELSE IF surface_id \in DOMAIN a.auto_size_surfaces
               /\ a.auto_size_surfaces[surface_id] THEN a
       ELSE IF surface_id.inner \notin a.interfaces
            THEN [a EXCEPT !.states[surface_id.inner].needs_redraw = FALSE]
       ELSE [a EXCEPT !.states[surface_id.inner].needs_redraw = FALSE,
                      !.messages = IF object_id \in nd.produced
                                   THEN Append(@, "m") ELSE @,
                      !.sent = Append(@, Ev("RedrawRequested", surface_id.kind,
                                            object_id, NoNative, FALSE)),
                      !.seen.scheduled = @ \cup {object_id},
                      !.flows = Append(@, Flow(nd, needs_update))]

RECURSIVE RedrawLoop(_, _, _, _, _)

RedrawLoop(a, order, k, needs_update, nd) ==
    IF k > Len(order) THEN a
    ELSE RedrawLoop(SurfaceRedraw(a, order[k], needs_update, nd),
                    order, k + 1, needs_update, nd)

\* if !sent_control_flow { .. }; redraw_pending = false
AfterRedrawLoop(a, before, nd) ==
    [a EXCEPT !.flows = IF Len(@) = Len(before.flows)
                        THEN Append(@, IF nd.wait THEN "WaitUntil" ELSE "Wait")
                        ELSE @,
              !.redraw_pending = FALSE]

\* the else branch: events to the interfaces, the update, the redraws
WithSurfaces(a, nd) ==
    LET Redraws(b, needs_update) ==
            AfterRedrawLoop(RedrawLoop(b, nd.order, 1, needs_update, nd), b, nd)
        Updated(r) ==
            IF r.needs_update
            THEN Redraws(UpdateInterfaces(r.a, nd), TRUE)
            ELSE Redraws(r.a, FALSE)
    IN Updated(EventsLoop([a |-> a, needs_update |-> FALSE], nd.order, 1, nd))

\* surface_ids.is_empty() && !messages.is_empty(): the update without surfaces
WithoutSurfaces(a, nd) ==
    [BuildUserInterfaces(Update(a, nd.cmds), a.interfaces, nd.layout)
        EXCEPT !.flows = Append(@, "Wait")]

\* the events the last while loop takes out of sctk_events
Leftover(evt) ==
    \/ evt.t \in {"SessionLocked", "SessionLockFinished", "SessionUnlocked"}
    \/ /\ evt.kind \in {"Window", "LayerSurface", "Popup"}
       /\ evt.t \in {"Created", "Close", "Done", "Configure", "Size",
                     "ScaleFactorChanged"}

\* what is left in sctk_events is broadcast as ignored, then cleared
ClearEvents(a) ==
    [Broadcast(a, NoObject, FlatMapToNative(SelectSeq(a.sctk_events, Leftover)))
        EXCEPT !.sctk_events = <<>>]

MainEventsCleared(a, nd) ==
    LET Entered == [a EXCEPT !.seen.queue = a.sctk_events,
                             !.seen.broadcast = <<>>,
                             !.seen.scheduled = {}]
    IN IF ~a.redraw_pending /\ a.sctk_events = <<>> /\ a.messages = <<>>
       THEN Entered
       ELSE IF DOMAIN a.surface_ids = {} /\ a.messages # <<>>
            THEN ClearEvents(WithoutSurfaces(Entered, nd))
       ELSE ClearEvents(WithSurfaces(Entered, nd))

-----------------------------------------------------------------------------
(* The callback of run (sctk/src/application.rs) and the loop of            *)
(* SctkEventLoop::run_return (sctk/src/event_loop/mod.rs).                  *)

\* the iterations of the loop that are followed
MaxIters == 3

\* the events the handlers queue during one dispatch
MaxBatch == 2

\* the surfaces and drag icons an application asks for
MaxSurfaces == 2

\* the raw OS error of a failure that has one (EIO)
EIO == 5

\* the inputs of a step that decides nothing
NoInput == [order |-> <<>>, outdated |-> {}, produced |-> {}, cmds |-> <<>>,
            layout |-> FALSE, request |-> "none", wait |-> FALSE,
            resized |-> FALSE, differs |-> FALSE, fit |-> "ok",
            pressed |-> TRUE, roundtrip |-> TRUE, supported |-> TRUE,
            received |-> TRUE]

\* an event of the loop that is about no surface
LoopEvent(t) == Ev(t, "none", NoObject, NoNative, FALSE)

\* the locals of run_instance as the record the handlers work on
App == [surface_ids |-> surface_ids, states |-> states, interfaces |-> interfaces,
        auto_size_surfaces |-> auto_size_surfaces, sctk_events |-> sctk_events,
        messages |-> messages, redraw_pending |-> redraw_pending,
        instance |-> instance, exit_on_close_request |-> exit_on_close_request,
        unique |-> unique, application |-> application, sent |-> <<>>, flows |-> <<>>, seen |-> seen]

\* what the application is handed, put on record before the handler runs
Handed(a, e) ==
    [a EXCEPT !.seen.last = e,
              !.seen.known = e.o \in DOMAIN a.surface_ids,
              !.seen.had = IF e.t \in {"DndFinished", "DndCancelled"}
                           THEN DndObjects(a) # {}
                           ELSE /\ e.o \in DOMAIN a.surface_ids
                                /\ a.surface_ids[e.o].inner \in a.interfaces,
              !.seen.configured =
                    CASE e.t = "Configure" /\ e.o \in DOMAIN a.surface_ids -> @ \cup {e.o}
                      [] e.t \in {"Close", "Done"} -> @ \ {e.o}
                      [] OTHER -> @,
              !.seen.drawn = <<>>,
              !.seen.closed = IF /\ e.t \in {"Close", "Done"}
                                 /\ e.kind \in {"Window", "LayerSurface", "Popup"}
                              THEN Append(@, e.o) ELSE @,
              !.seen.phase = CASE e.t = "NewEvents" -> "batch"
                               [] e.t = "MainEventsCleared" -> "cleared"
                               [] e.t = "RedrawEventsCleared" -> "done"
                               [] OTHER -> @,
              !.seen.queue = IF e.t = "RedrawEventsCleared" THEN <<>> ELSE @,
              !.seen.broadcast = IF e.t = "RedrawEventsCleared" THEN <<>> ELSE @,
              !.seen.scheduled = IF e.t = "RedrawEventsCleared" THEN {} ELSE @]

\* match event { .. } of run_instance
Handle(a, e, nd) ==
    CASE e.t = "NewEvents" -> NewEvents(Handed(a, e), e.kind)
      [] e.t = "UserEvent" -> UserEvent(Handed(a, e), "m")
      [] e.t = "DndSurfaceCreated" -> DndSurfaceCreated(Handed(a, e), e, nd)
      [] e.t = "MainEventsCleared" -> MainEventsCleared(Handed(a, e), nd)
      [] e.t = "RedrawRequested" -> RedrawRequested(Handed(a, e), e)
      [] e.t = "RedrawEventsCleared" -> Handed(a, e)
      [] e.t = "LoopDestroyed" -> LoopDestroyed(Handed(a, e))
      [] e.t = "Frame" -> Frame(Handed(a, e), e, nd)
      [] OTHER -> SctkEvent(Handed(a, e), e, nd)

\* the first poll of the instance runs init_command before it takes the event
Polled(a, e, nd) ==
    IF a.instance = "pending"
    THEN Handle([RunCommand(a, nd.cmds) EXCEPT
                    !.instance = "running",
                    !.seen.main = IF nd.cmds # <<>> /\ nd.cmds[Len(nd.cmds)].t = "Create"
                                     /\ nd.cmds[Len(nd.cmds)].n = Native(1)
                                  THEN Native(1) ELSE NoNative],
                e, nd)
    ELSE Handle(a, e, nd)

\* the closure run hands to run_return: nothing once control_flow is
\* ExitWithCode; else the event goes to the instance, which is polled; a
\* pending instance lets one ControlFlow through, a finished one makes it
\* ExitWithCode(1)
\* a slip: the closure does not return at once when control_flow is
\* ExitWithCode
CallbackNotSticky(cf, recv, a, e, nd) ==
    LET Out(b) ==
            CASE b.instance = "finished" ->
                    [cf |-> "ExitWithCode", recv |-> recv \o b.flows, a |-> b]
              [] b.instance = "panicked" ->
                    [cf |-> cf, recv |-> recv \o b.flows, a |-> b]
              [] OTHER ->
                    [cf |-> IF recv \o b.flows # <<>> THEN Head(recv \o b.flows) ELSE cf,
                     recv |-> IF recv \o b.flows # <<>> THEN Tail(recv \o b.flows)
                              ELSE <<>>,
                     a |-> b]
    IN Out(Polled(a, e, nd))

Callback(cf, recv, a, e, nd) ==
    IF cf = "ExitWithCode" THEN [cf |-> cf, recv |-> recv, a |-> a]
    ELSE LET Out(b) ==
                CASE b.instance = "finished" ->
                        [cf |-> "ExitWithCode", recv |-> recv \o b.flows, a |-> b]
                  [] b.instance = "panicked" ->
                        [cf |-> cf, recv |-> recv \o b.flows, a |-> b]
                  [] OTHER ->
                        [cf |-> IF recv \o b.flows # <<>> THEN Head(recv \o b.flows) ELSE cf,
                         recv |-> IF recv \o b.flows # <<>> THEN Tail(recv \o b.flows)
                                  ELSE <<>>,
                         a |-> b]
         IN Out(Polled(a, e, nd))

\* sticky_exit_callback for each of the events in turn; a panic ends it
RECURSIVE Callbacks(_, _, _, _, _)

Callbacks(cf, recv, a, events, nd) ==
    LET Then(r) ==
            IF Len(events) = 1 \/ r.a.instance = "panicked" THEN r
            ELSE Callbacks(r.cf, r.recv, [r.a EXCEPT !.flows = <<>>], Tail(events), nd)
    IN Then(Callback(cf, recv, a, Head(events), nd))

\* the state a callback leaves: the locals of the instance, the channels,
\* control_flow; a panic of the instance unwinds through run_return.
\* channel: what the proxy has sent and the loop has not taken
SetApp(r, then, channel) ==
    /\ surface_ids' = r.a.surface_ids
    /\ states' = r.a.states
    /\ interfaces' = r.a.interfaces
    /\ auto_size_surfaces' = r.a.auto_size_surfaces
    /\ sctk_events' = r.a.sctk_events
    /\ messages' = r.a.messages
    /\ redraw_pending' = r.a.redraw_pending
    /\ instance' = r.a.instance
    /\ unique' = r.a.unique
    /\ seen' = r.a.seen
    /\ user_events_channel' = channel \o r.a.sent
    /\ control_receiver' = r.recv
    /\ control_flow' = r.cf
    /\ pc' = IF r.a.instance = "panicked" THEN "panicked" ELSE then
    /\ UNCHANGED <<exit_on_close_request, application>>

-----------------------------------------------------------------------------
(* The handlers that run while the loop dispatches: they queue events in   *)
(* SctkState.  windows stands for the windows, layer_surfaces, popups and  *)
(* lock_surfaces of SctkState: wl_surface -> [kind, n, last_configure].    *)

\* the iterations a run is followed for: a drag icon and the data of an
\* offer appear in the third at the earliest and a popup of a popup in the
\* fourth, so a run with one of them is followed further
Horizon ==
    IF application.surfaces > MaxSurfaces THEN MaxIters + 4
    ELSE IF application.actions \cap {"StartDnd", "RequestDndData"} # {}
    THEN MaxIters + 1 ELSE MaxIters

\* the events queued since the last swap of the buffers
Queued == Len(compositor_updates) + Len(frame_events) + Len(state_sctk_events)

\* the loop is where it flushes and dispatches, and takes more events; what
\* would come after the last iteration followed is left out
Dispatching == pc = "loop" /\ Queued < MaxBatch /\ iters < Horizon

\* SessionLockHandler::configure: first is last_configure.is_none()
SessionLockConfigure(o) ==
    /\ Dispatching
    /\ "configure" \in compositor
    /\ o \in DOMAIN windows
    /\ windows[o].kind = "SessionLock"
    /\ state_sctk_events' = Append(state_sctk_events,
            Ev("Configure", "SessionLock", o, NoNative, ~windows[o].last_configure))
    /\ windows' = [windows EXCEPT ![o].last_configure = TRUE]
    /\ UNCHANGED <<pc, control_flow, exit_code, error, session_lock, dnd_source,
                   compositor_updates, frame_events, back_buffer,
                   pending_user_events, user_events_channel, pending_redraws>>
    /\ UNCHANGED <<treeVars, handlerVars, appVars, server, compositor, seen, iters>>

\* the configure handlers of windows, layer surfaces and popups
SurfaceConfigure(o) ==
    /\ Dispatching
    /\ "configure" \in compositor
    /\ o \in DOMAIN windows
    /\ windows[o].kind \in {"Window", "LayerSurface", "Popup"}
    /\ state_sctk_events' = Append(state_sctk_events,
            Ev("Configure", windows[o].kind, o, NoNative, ~windows[o].last_configure))
    /\ windows' = [windows EXCEPT ![o].last_configure = TRUE]
    /\ UNCHANGED <<pc, control_flow, exit_code, error, session_lock, dnd_source,
                   compositor_updates, frame_events, back_buffer,
                   pending_user_events, user_events_channel, pending_redraws>>
    /\ UNCHANGED <<treeVars, handlerVars, appVars, server, compositor, seen, iters>>

\* SctkEvent::PopupEvent with the variant Done: it names the parent
PopupDone(o, parent) ==
    [t |-> "Done", kind |-> "Popup", o |-> o, n |-> NoNative, flag |-> FALSE,
     parent |-> parent]

\* request_close of a window, closed of a layer surface, done of a popup
SurfaceClosed(o) ==
    /\ Dispatching
    /\ "close" \in compositor
    /\ o \in DOMAIN windows
    /\ windows[o].kind \in {"Window", "LayerSurface", "Popup"}
    /\ state_sctk_events' = Append(state_sctk_events,
            IF windows[o].kind = "Popup" THEN PopupDone(o, windows[o].parent.o)
            ELSE Ev(IF windows[o].kind = "Window" THEN "Close" ELSE "Done",
                    windows[o].kind, o, NoNative, FALSE))
    /\ UNCHANGED <<pc, control_flow, exit_code, error, windows, session_lock, dnd_source,
                   compositor_updates, frame_events, back_buffer,
                   pending_user_events, user_events_channel, pending_redraws>>
    /\ UNCHANGED <<treeVars, handlerVars, appVars, server, compositor, seen, iters>>

\* CompositorHandler::frame
FrameHandler(o) ==
    /\ Dispatching
    /\ "frame" \in compositor
    /\ o \in DOMAIN windows
    /\ frame_events' = Append(frame_events, Ev("Frame", windows[o].kind, o, NoNative, FALSE))
    /\ UNCHANGED <<pc, control_flow, exit_code, error, windows, session_lock, dnd_source,
                   compositor_updates, state_sctk_events, back_buffer,
                   pending_user_events, user_events_channel, pending_redraws>>
    /\ UNCHANGED <<treeVars, handlerVars, appVars, server, compositor, seen, iters>>

\* CompositorHandler::scale_factor_changed, and SctkState::scale_factor_changed
\* for what it queues
ScaleFactorHandler(o) ==
    /\ Dispatching
    /\ "scale_factor_changed" \in compositor
    /\ o \in DOMAIN windows
    /\ windows[o].kind \in {"Window", "LayerSurface", "Popup"}
    /\ compositor_updates' = Append(compositor_updates,
            Ev("ScaleFactorChanged", windows[o].kind, o, NoNative, FALSE))
    /\ UNCHANGED <<pc, control_flow, exit_code, error, windows, session_lock, dnd_source,
                   frame_events, state_sctk_events, back_buffer,
                   pending_user_events, user_events_channel, pending_redraws>>
    /\ UNCHANGED <<treeVars, handlerVars, appVars, server, compositor, seen, iters>>

\* the touch points a seat tells apart
MaxFingers == 2

Fingers == 0..(MaxFingers - 1)

\* the positions a touch point is reported at
Positions == {0, 1}

\* SctkEvent::TouchEvent: an event of the surface the touch point went down
\* on, with the variant of touch::Event, the Finger and the position
TouchEvent(variant, surface, id, position) ==
    [t |-> "Touch", kind |-> surface.kind, o |-> surface.o, n |-> NoNative,
     flag |-> FALSE, variant |-> variant, id |-> id, position |-> position]

\* the touch handlers work on touch_points and sctk_events of SctkState
Seat == [touch_points |-> touch_points, sctk_events |-> state_sctk_events]

\* TouchHandler::down
Down(s, surface, id, position) ==
    [touch_points |-> MapInsert(s.touch_points, id,
                                [surface |-> surface, position |-> position]),
     sctk_events |-> Append(s.sctk_events,
                            TouchEvent("FingerPressed", surface, id, position))]

\* TouchHandler::up
Up(s, id) ==
    IF id \in DOMAIN s.touch_points
    THEN [s EXCEPT !.sctk_events =
            Append(@, TouchEvent("FingerLifted", s.touch_points[id].surface, id,
                                 s.touch_points[id].position))]
    ELSE s

\* TouchHandler::motion
Motion(s, id, position) ==
    IF id \in DOMAIN s.touch_points
    THEN [touch_points |-> [s.touch_points EXCEPT ![id].position = position],
          sctk_events |-> Append(s.sctk_events,
                TouchEvent("FingerMoved", s.touch_points[id].surface, id, position))]
    ELSE s

\* the FingerLost events of touch_points.drain() for the touch points left,
\* in one of the orders the HashMap can give
RECURSIVE Drained(_, _)

Drained(tp, left) ==
    IF left = {} THEN {<<>>}
    ELSE UNION {{<<TouchEvent("FingerLost", tp[id].surface, id, tp[id].position)>> \o rest :
                    rest \in Drained(tp, left \ {id})} : id \in left}

\* TouchHandler::cancel, the drain giving the events lost
Cancel(s, lost) == [touch_points |-> <<>>, sctk_events |-> s.sctk_events \o lost]

\* the surface o as the handlers are given it
Surface(o) == [o |-> o, kind |-> windows[o].kind]

\* the least of a set of numbers
Least(S) == CHOOSE x \in S : \A y \in S : x <= y

\* the ids a compositor that numbers its touch points from 0 gives the next
LeastFree == IF Fingers \ fingers = {} THEN {} ELSE {Least(Fingers \ fingers)}

\* the compositor puts the finger id, which was not down, down on the surface o
TouchDown(o, id, position) ==
    /\ Dispatching
    /\ "touch" \in compositor
    /\ o \in DOMAIN windows
    /\ id \notin fingers
    /\ \E s \in {Down(Seat, Surface(o), id, position)} :
            /\ touch_points' = s.touch_points
            /\ state_sctk_events' = s.sctk_events
    /\ fingers' = fingers \cup {id}
    /\ UNCHANGED <<pc, control_flow, exit_code, error, windows, session_lock, dnd_source,
                   compositor_updates, frame_events, back_buffer,
                   pending_user_events, user_events_channel, pending_redraws>>
    /\ UNCHANGED <<treeVars, dnd_offer, drag_offer, sources, buffers, appVars, server,
                   compositor, seen, iters>>

\* the finger id is lifted
TouchUp(id) ==
    /\ Dispatching
    /\ "touch" \in compositor
    /\ id \in fingers
    /\ \E s \in {Up(Seat, id)} :
            /\ touch_points' = s.touch_points
            /\ state_sctk_events' = s.sctk_events
    /\ fingers' = fingers \ {id}
    /\ UNCHANGED <<pc, control_flow, exit_code, error, windows, session_lock, dnd_source,
                   compositor_updates, frame_events, back_buffer,
                   pending_user_events, user_events_channel, pending_redraws>>
    /\ UNCHANGED <<treeVars, dnd_offer, drag_offer, sources, buffers, appVars, server,
                   compositor, seen, iters>>

\* a motion is reported under the id of a finger
TouchMotion(id, position) ==
    /\ Dispatching
    /\ "touch" \in compositor
    /\ \E s \in {Motion(Seat, id, position)} :
            /\ touch_points' = s.touch_points
            /\ state_sctk_events' = s.sctk_events
    /\ UNCHANGED <<pc, control_flow, exit_code, error, windows, session_lock, dnd_source,
                   compositor_updates, frame_events, back_buffer,
                   pending_user_events, user_events_channel, pending_redraws>>
    /\ UNCHANGED <<treeVars, fingers, dnd_offer, drag_offer, sources, buffers, appVars, server,
                   compositor, seen, iters>>

\* the compositor cancels the touch session: no finger stays down
TouchCancel ==
    /\ Dispatching
    /\ "touch" \in compositor
    /\ \E lost \in Drained(touch_points, DOMAIN touch_points) :
       \E s \in {Cancel(Seat, lost)} :
            /\ touch_points' = s.touch_points
            /\ state_sctk_events' = s.sctk_events
    /\ fingers' = {}
    /\ UNCHANGED <<pc, control_flow, exit_code, error, windows, session_lock, dnd_source,
                   compositor_updates, frame_events, back_buffer,
                   pending_user_events, user_events_channel, pending_redraws>>
    /\ UNCHANGED <<treeVars, dnd_offer, drag_offer, sources, buffers, appVars, server,
                   compositor, seen, iters>>

\* the drag offers a data device tells apart
MaxOffers == 2

\* SctkEvent::DndOffer with the variant of DndOfferEvent, for the surface
OfferEvent(variant, surface) ==
    [t |-> "DndOffer", kind |-> surface.kind, o |-> surface.o, n |-> NoNative,
     flag |-> FALSE, variant |-> variant]

\* the data device handlers work on dnd_offer and sctk_events of SctkState
\* and on the sources of the loop
Device == [dnd_offer |-> dnd_offer, sctk_events |-> state_sctk_events,
           sources |-> sources]

\* DataDeviceHandler::enter; offer: drag_offer() of the data device, 0 for None
Enter(s, offer, surface) ==
    [s EXCEPT !.dnd_offer = [some |-> TRUE, dropped |-> FALSE, offer |-> offer,
                             cur_read |-> FALSE, surface |-> surface],
              !.sctk_events = Append(@, OfferEvent("Enter", surface))]

\* DataDeviceHandler::leave
Leave(s) ==
    IF s.dnd_offer.some /\ ~s.dnd_offer.dropped
    THEN [s EXCEPT !.dnd_offer = NoOffer,
                   !.sctk_events = Append(@, OfferEvent("Leave", s.dnd_offer.surface))]
    ELSE s

\* DataDeviceHandler::drop_performed; offer: drag_offer() of the data device
DropPerformed(s, offer) ==
    IF s.dnd_offer.some /\ offer = s.dnd_offer.offer
    THEN [s EXCEPT !.dnd_offer.dropped = TRUE,
                   !.sctk_events = Append(@, OfferEvent("DropPerformed",
                                                        s.dnd_offer.surface))]
    ELSE s

\* the callback of a read pipe (RequestDndData, insert_source); read:
\* fill_buf gives "data", an empty buffer ("end"), Interrupted or another
\* error.  take() empties dnd_offer, and the paths that return without
\* putting it back leave it empty
ReadPipe(s, read) ==
    LET Taken == [s EXCEPT !.dnd_offer = NoOffer]
        Back(reading) == [s EXCEPT !.dnd_offer.cur_read = reading]
    IN CASE ~s.dnd_offer.some -> s
         [] s.dnd_offer.offer = 0 -> [Taken EXCEPT !.sources = @ - 1]
         [] ~s.dnd_offer.cur_read -> Taken
         [] read = "end" ->
                [(IF s.dnd_offer.dropped THEN Taken ELSE Back(FALSE)) EXCEPT
                    !.sources = @ - 1,
                    !.sctk_events = Append(@, OfferEvent("Data", s.dnd_offer.surface))]
         [] read = "data" -> Back(TRUE)
         [] read = "Interrupted" -> Back(TRUE)
         [] OTHER ->
                [(IF s.dnd_offer.dropped THEN Taken ELSE Back(FALSE)) EXCEPT
                    !.sources = @ - 1]

\* the compositor sends enter for the surface o with the drag offer
DataDeviceEnter(o, offer) ==
    /\ Dispatching
    /\ "data_device" \in compositor
    /\ o \in DOMAIN windows
    /\ drag_offer' = offer
    /\ \E s \in {Enter(Device, offer, Surface(o))} :
            /\ dnd_offer' = s.dnd_offer
            /\ state_sctk_events' = s.sctk_events
    /\ UNCHANGED <<pc, control_flow, exit_code, error, windows, session_lock, dnd_source,
                   compositor_updates, frame_events, back_buffer,
                   pending_user_events, user_events_channel, pending_redraws>>
    /\ UNCHANGED <<treeVars, touch_points, fingers, sources, buffers, appVars, server,
                   compositor, seen, iters>>

\* the compositor sends leave: the data device has no drag offer any more
DataDeviceLeave ==
    /\ Dispatching
    /\ "data_device" \in compositor
    /\ drag_offer' = 0
    /\ \E s \in {Leave(Device)} :
            /\ dnd_offer' = s.dnd_offer
            /\ state_sctk_events' = s.sctk_events
    /\ UNCHANGED <<pc, control_flow, exit_code, error, windows, session_lock, dnd_source,
                   compositor_updates, frame_events, back_buffer,
                   pending_user_events, user_events_channel, pending_redraws>>
    /\ UNCHANGED <<treeVars, touch_points, fingers, sources, buffers, appVars, server,
                   compositor, seen, iters>>

\* the compositor sends drop
DataDeviceDrop ==
    /\ Dispatching
    /\ "data_device" \in compositor
    /\ \E s \in {DropPerformed(Device, drag_offer)} :
            /\ dnd_offer' = s.dnd_offer
            /\ state_sctk_events' = s.sctk_events
    /\ UNCHANGED <<pc, control_flow, exit_code, error, windows, session_lock, dnd_source,
                   compositor_updates, frame_events, back_buffer,
                   pending_user_events, user_events_channel, pending_redraws>>
    /\ UNCHANGED <<treeVars, touch_points, fingers, drag_offer, sources, buffers, appVars,
                   server, compositor, seen, iters>>

\* a read pipe of the loop is ready while the loop dispatches; the events
\* the callbacks queue are no more than the pipes
ReadReady(read) ==
    /\ pc = "loop"
    /\ iters < Horizon
    /\ sources > 0
    /\ \E s \in {ReadPipe(Device, read)} :
            /\ dnd_offer' = s.dnd_offer
            /\ state_sctk_events' = s.sctk_events
            /\ sources' = s.sources
    /\ UNCHANGED <<pc, control_flow, exit_code, error, windows, session_lock, dnd_source,
                   compositor_updates, frame_events, back_buffer,
                   pending_user_events, user_events_channel, pending_redraws>>
    /\ UNCHANGED <<treeVars, touch_points, fingers, drag_offer, buffers, appVars,
                   server, compositor, seen, iters>>

\* SessionLockHandler::locked: the compositor grants the lock asked for
Locked ==
    /\ Dispatching
    /\ "locked" \in compositor
    /\ session_lock
    /\ server = "pending"
    /\ server' = "locked"
    /\ state_sctk_events' = Append(state_sctk_events,
            Ev("SessionLocked", "SessionLock", NoObject, NoNative, FALSE))
    /\ UNCHANGED <<pc, control_flow, exit_code, error, windows, session_lock, dnd_source,
                   compositor_updates, frame_events, back_buffer,
                   pending_user_events, user_events_channel, pending_redraws>>
    /\ UNCHANGED <<treeVars, handlerVars, appVars, compositor, seen, iters>>

\* SessionLockHandler::finished: the compositor denies or ends the lock
Finished ==
    /\ Dispatching
    /\ "finished" \in compositor
    /\ session_lock
    /\ server \in {"pending", "locked"}
    /\ server' = "finished"
    /\ state_sctk_events' = Append(state_sctk_events,
            Ev("SessionLockFinished", "SessionLock", NoObject, NoNative, FALSE))
    /\ UNCHANGED <<pc, control_flow, exit_code, error, windows, session_lock, dnd_source,
                   compositor_updates, frame_events, back_buffer,
                   pending_user_events, user_events_channel, pending_redraws>>
    /\ UNCHANGED <<treeVars, handlerVars, appVars, compositor, seen, iters>>

\* the data source handler: the drag ends or is cancelled by the compositor
DataSourceHandler(t) ==
    /\ Dispatching
    /\ "data_source" \in compositor
    /\ dnd_source
    /\ state_sctk_events' = Append(state_sctk_events,
            Ev(t, "DataSource", NoObject, NoNative, FALSE))
    /\ UNCHANGED <<pc, control_flow, exit_code, error, windows, session_lock, dnd_source,
                   compositor_updates, frame_events, back_buffer,
                   pending_user_events, user_events_channel, pending_redraws>>
    /\ UNCHANGED <<treeVars, handlerVars, appVars, server, compositor, seen, iters>>

\* a future or subscription of the runtime sends a message through the proxy
RuntimeMessage ==
    /\ pc = "loop"
    /\ Len(user_events_channel) < MaxBatch
    /\ iters < Horizon
    /\ "runtime" \in application.messages
    /\ instance = "running"
    /\ user_events_channel' = Append(user_events_channel,
            Ev("Message", "none", NoObject, NoNative, FALSE))
    /\ UNCHANGED <<pc, control_flow, exit_code, error, windows, session_lock, dnd_source,
                   compositor_updates, frame_events, state_sctk_events, back_buffer,
                   pending_user_events, pending_redraws>>
    /\ UNCHANGED <<treeVars, handlerVars, appVars, server, compositor, seen, iters>>

-----------------------------------------------------------------------------
(* The actions the application posts through the proxy, as the loop takes  *)
(* them from pending_user_events.                                          *)

\* the surfaces of SctkState of one of the kinds with the id n
FindSurface(w, kinds, n) == {o \in DOMAIN w : w[o].kind \in kinds /\ w[o].n = n}

\* the state of SctkState the actions work on
Loop == [windows |-> windows, session_lock |-> session_lock,
         dnd_source |-> dnd_source, pending_redraws |-> pending_redraws,
         server |-> server, dnd_offer |-> dnd_offer, sources |-> sources]

\* what an action leaves: the state, the events handed to the callback, for
\* an Unlock whether a lock was held and whether the roundtrip came back, and
\* whether it panicked
Did(l, cb) ==
    [l |-> l, cb |-> cb, unlock |-> FALSE, held |-> FALSE, acked |-> FALSE,
     panic |-> FALSE]

\* Event::SctkEvent(IcedSctkEvent::RedrawRequested(id)): kept for after
\* MainEventsCleared
PendRedrawDelivers(l, e) == Did(l, <<e>>)

PendRedraw(l, e) == Did([l EXCEPT !.pending_redraws = Append(@, e.o)], <<>>)

\* SctkPopupData::parent of a surface that is no popup
NoParent == [o |-> NoObject, kind |-> ""]

\* SctkState::get_popup finds the parent e.o of the popup among the windows,
\* layer surfaces and popups
GetPopup(l, e) ==
    /\ e.o \in DOMAIN l.windows
    /\ l.windows[e.o].kind \in {"Window", "LayerSurface", "Popup"}

\* Action::Window, Action::LayerSurface, Action::Popup with a builder: the
\* surface Object(k) is made for the id Native(k); a popup keeps its parent
CreateSurface(l, e) ==
    IF e.kind = "Popup" /\ ~GetPopup(l, e)
    THEN Did(l, <<>>)
    ELSE Did([l EXCEPT !.windows = MapInsert(@, Object(e.n[2]),
                        [kind |-> e.kind, n |-> e.n, last_configure |-> FALSE,
                         parent |-> IF e.kind = "Popup"
                                    THEN [o |-> e.o, kind |-> l.windows[e.o].kind]
                                    ELSE NoParent])],
             <<Ev("Created", e.kind, Object(e.n[2]), e.n, FALSE)>>)

\* Action::Size of a window, a layer surface or a popup
SizeSurface(l, e) ==
    LET Found(o) ==
            IF e.kind = "Popup"
            THEN Did([l EXCEPT !.pending_redraws = Append(@, o)],
                     <<Ev("Size", "Popup", o, NoNative, FALSE)>>)
            ELSE Did([l EXCEPT !.pending_redraws = Append(@, o)],
                     IF l.windows[o].last_configure
                     THEN <<Ev("Configure", e.kind, o, NoNative, FALSE)>>
                     ELSE <<>>)
    IN IF FindSurface(l.windows, {e.kind}, e.n) = {} THEN Did(l, <<>>)
       ELSE Found(CHOOSE o \in FindSurface(l.windows, {e.kind}, e.n) : TRUE)

\* the while loop of popup::Action::Destroy: as long as the last of
\* to_destroy has a popup as parent, that parent is taken out of popups and
\* pushed; position(..).unwrap() panics when it is not there.  popups: the
\* surfaces left; to_destroy: the popups taken out, as [o, parent]
RECURSIVE DestroyFirst(_, _)

DestroyFirst(popups, to_destroy) ==
    LET parent == to_destroy[Len(to_destroy)].parent
    IN IF parent.kind \in {"Window", "LayerSurface"}
       THEN [popups |-> popups, to_destroy |-> to_destroy, panic |-> FALSE]
       ELSE IF parent.o \notin DOMAIN popups
            THEN [popups |-> popups, to_destroy |-> to_destroy, panic |-> TRUE]
       ELSE DestroyFirst(MapRemove(popups, parent.o),
                         Append(to_destroy,
                                [o |-> parent.o, parent |-> popups[parent.o].parent]))

\* Vec::into_iter().rev()
Rev(v) == [i \in 1..Len(v) |-> v[Len(v) + 1 - i]]

\* popup::Action::Destroy { id }: the popup is taken out of popups, then the
\* popups it hangs on; a Done is handed over for each, the last taken first
DestroyPopup(l, o) ==
    LET Out(r) ==
            IF r.panic
            THEN [Did([l EXCEPT !.windows = r.popups], <<>>) EXCEPT !.panic = TRUE]
            ELSE Did([l EXCEPT !.windows = r.popups],
                     [i \in 1..Len(r.to_destroy) |->
                        PopupDone(Rev(r.to_destroy)[i].o, Rev(r.to_destroy)[i].parent.o)])
    IN Out(DestroyFirst(MapRemove(l.windows, o),
                        <<[o |-> o, parent |-> l.windows[o].parent]>>))

\* Action::Destroy of a window, a layer surface or a popup, and
\* Action::DestroyLockSurface
DestroySurface(l, e) ==
    LET Found(o) ==
            IF e.kind = "Popup" THEN DestroyPopup(l, o)
            ELSE Did([l EXCEPT !.windows = MapRemove(@, o)],
                     <<Ev(IF e.kind = "Window" THEN "Close" ELSE "Done",
                          e.kind, o, NoNative, FALSE)>>)
    IN IF FindSurface(l.windows, {e.kind}, e.n) = {} THEN Did(l, <<>>)
       ELSE Found(CHOOSE o \in FindSurface(l.windows, {e.kind}, e.n) : TRUE)

\* session_lock::Action::Lock; nd.supported: the compositor has the protocol
Lock(l, nd) ==
    IF l.session_lock THEN Did(l, <<>>)
    ELSE Did([l EXCEPT !.session_lock = nd.supported,
                       !.server = IF nd.supported THEN "pending" ELSE @], <<>>)

\* session_lock::Action::Unlock; nd.roundtrip: connection.roundtrip() is Ok
Unlock(l, nd) ==
    [l |-> [l EXCEPT !.session_lock = FALSE,
                     !.server = IF l.session_lock /\ nd.roundtrip THEN "unlocked" ELSE @],
     cb |-> <<Ev("SessionUnlocked", "SessionLock", NoObject, NoNative, FALSE)>>,
     unlock |-> TRUE, held |-> l.session_lock, acked |-> nd.roundtrip,
     panic |-> FALSE]

\* session_lock::Action::LockSurface: get_lock_surface gives a surface while
\* a lock is held
LockSurface(l, e) ==
    IF ~l.session_lock THEN Did(l, <<>>)
    ELSE Did([l EXCEPT !.windows = MapInsert(@, Object(e.n[2]),
                        [kind |-> "SessionLock", n |-> e.n, last_configure |-> FALSE,
                         parent |-> NoParent])],
             <<Ev("Created", "SessionLock", Object(e.n[2]), e.n, FALSE)>>)

\* data_device::ActionInner::StartDnd with an icon e.n, or with NoNative for
\* none; e.o names the origin by its surface; nd.pressed: the seat has the
\* serial of a press
StartDnd(l, e, nd) ==
    IF ~nd.pressed THEN Did(l, <<>>)
    ELSE IF FindSurface(l.windows, {"Window", "LayerSurface", "Popup"},
                        Native(e.o[2])) = {}
         THEN Did(l, <<>>)
    ELSE IF e.n = NoNative THEN Did([l EXCEPT !.dnd_source = TRUE], <<>>)
    ELSE Did([l EXCEPT !.dnd_source = TRUE],
             <<Ev("DndSurfaceCreated", "Dnd", Object(e.n[2]), e.n, FALSE)>>)

\* data_device::ActionInner::DndCancelled
DndCancelled(l) ==
    IF l.dnd_source
    THEN Did([l EXCEPT !.dnd_source = FALSE],
             <<Ev("DndCancelled", "DataSource", NoObject, NoNative, FALSE)>>)
    ELSE Did(l, <<>>)

\* data_device::ActionInner::DndFinished: take() empties dnd_offer, and only
\* an offer with a DragOffer that was not dropped is put back
FinishOffer(l) ==
    IF l.dnd_offer.some /\ l.dnd_offer.offer # 0 /\ ~l.dnd_offer.dropped
    THEN Did(l, <<>>)
    ELSE Did([l EXCEPT !.dnd_offer = NoOffer], <<>>)

\* data_device::ActionInner::RequestDndData; nd.received: offer.receive and
\* insert_source are Ok, and the read pipe is one more source of the loop
RequestDndData(l, nd) ==
    IF l.dnd_offer.some /\ l.dnd_offer.offer # 0 /\ nd.received
    THEN Did([l EXCEPT !.dnd_offer.cur_read = TRUE, !.sources = @ + 1], <<>>)
    ELSE Did(l, <<>>)

\* match event { .. } over the pending user events
UserAction(l, e, nd) ==
    CASE e.t = "Message" -> Did(l, <<LoopEvent("UserEvent")>>)
      [] e.t = "RedrawRequested" -> PendRedraw(l, e)
      [] e.t = "Create" -> CreateSurface(l, e)
      [] e.t = "Size" -> SizeSurface(l, e)
      [] e.t = "Destroy" -> DestroySurface(l, e)
      [] e.t = "Lock" -> Lock(l, nd)
      [] e.t = "Unlock" -> Unlock(l, nd)
      [] e.t = "LockSurface" -> LockSurface(l, e)
      [] e.t = "StartDnd" -> StartDnd(l, e, nd)
      [] e.t = "DndCancelled" -> DndCancelled(l)
      [] e.t = "DndFinished" -> FinishOffer(l)
      [] e.t = "RequestDndData" -> RequestDndData(l, nd)
      [] OTHER -> Did(l, <<>>)

\* the actions a Command of the application can hold when unique ids have
\* been handed out up to a.unique: surfaces and icons under a fresh id, a
\* popup with the surface of an id so far as parent, the rest for any id so
\* far
Actions(a) ==
    LET Fresh == IF a.unique < a.application.surfaces THEN {Native(a.unique + 1)} ELSE {}
        Ids == {Native(k) : k \in 1..a.unique}
        KindOf(n) == IF n \in DOMAIN a.states THEN a.states[n].wrapper.kind ELSE "Window"
        All ==
          {Ev("Create", kind, NoObject, n, a.application.autosize) :
            kind \in a.application.kinds \ {"Popup"}, n \in Fresh}
       \cup {Ev("Create", "Popup", Object(k), n, a.application.autosize) :
                kind \in a.application.kinds \cap {"Popup"}, k \in 1..a.unique,
                n \in Fresh}
       \cup {Ev("LockSurface", "SessionLock", NoObject, n, FALSE) : n \in Fresh}
       \cup {Ev("StartDnd", "Dnd", Object(k), n, FALSE) :
                k \in 1..a.unique,
                n \in IF "Dnd" \in a.application.kinds THEN Fresh ELSE {NoNative}}
       \cup {Ev("Size", KindOf(n), NoObject, n, FALSE) :
                n \in {x \in Ids : KindOf(x) \in {"Window", "LayerSurface", "Popup"}}}
       \cup {Ev("Destroy", KindOf(n), NoObject, n, FALSE) :
                n \in {x \in Ids : KindOf(x) # "Dnd"}}
       \cup {LoopEvent("Lock"), LoopEvent("Unlock"), LoopEvent("DndCancelled"),
             LoopEvent("DndFinished"), LoopEvent("RequestDndData")}
    IN {c \in All : c.t \in a.application.actions}

\* a Command: no action or one
Commands(a) == {<<>>} \cup {<<c>> : c \in Actions(a)}

-----------------------------------------------------------------------------
(* The inputs of a step, and the steps of run_return.                      *)

\* the orders in which a HashMap with the keys S can be iterated
Orders(S) ==
    {f \in [1..Cardinality(S) -> S] : \A i, j \in 1..Cardinality(S) : f[i] = f[j] => i = j}

\* a set of choices where the step depends on them, one value where it does not
Choice(depends, values, value) == IF depends THEN values ELSE {value}

\* what the handling of the event or action e can depend on
EventInputs(a, e) ==
    LET sized == e.t \in {"Configure", "Size", "ScaleFactorChanged"}
        auto == DOMAIN a.auto_size_surfaces # {}
    IN {[NoInput EXCEPT !.resized = r, !.differs = d, !.layout = y, !.fit = f,
                        !.pressed = p, !.roundtrip = t, !.supported = u,
                        !.received = v] :
            r \in Choice(sized, BOOLEAN, FALSE),
            d \in Choice(sized /\ auto, BOOLEAN, FALSE),
            y \in Choice(auto /\ (sized \/ e.t = "StartDnd"), BOOLEAN, FALSE),
            f \in Choice(e.t = "StartDnd", {"zero", "large", "ok"}, "ok"),
            p \in Choice(e.t = "StartDnd", BOOLEAN, TRUE),
            t \in Choice(e.t = "Unlock", BOOLEAN, TRUE),
            u \in Choice(e.t = "Lock", BOOLEAN, TRUE),
            v \in Choice(e.t = "RequestDndData", BOOLEAN, TRUE)}

\* the surfaces with an interface
Interfaced(a) ==
    {o \in DOMAIN a.surface_ids : a.surface_ids[o].inner \in a.interfaces}

\* what MainEventsCleared can depend on.  A redraw_request counts when a
\* redraw is sent and the timeout when none is, so the two are not varied
\* together; more: the actions of a Command will still be taken
ClearedInputs(a, more) ==
    {[NoInput EXCEPT !.order = o, !.outdated = out, !.produced = p, !.cmds = c,
                     !.layout = y, !.request = q[1], !.wait = q[2]] :
        o \in Orders(DOMAIN a.surface_ids),
        out \in SUBSET Interfaced(a),
        p \in {{}} \cup Choice("widget" \in a.application.messages,
                             {{x} : x \in Interfaced(a)}, {}),
        c \in Choice(more, Commands(a), <<>>),
        y \in Choice(DOMAIN a.auto_size_surfaces # {}, BOOLEAN, FALSE),
        q \in {<<"none", FALSE>>, <<"NextFrame", FALSE>>, <<"At", FALSE>>,
               <<"none", TRUE>>}}

\* the runs that are followed, each an application under a compositor that
\* sends the events named: two windows that are configured, touched and
\* closed; a window with frame callbacks and scale factors; an autosize layer
\* surface with popups; a session locker without an initial surface; a
\* window that drags icons; two windows and a drag without an icon
Runs ==
    {[application |-> [main |-> "Window", actions |-> {"Create", "Size", "Destroy"},
                       kinds |-> {"Window"}, autosize |-> FALSE,
                       messages |-> {"runtime"}, surfaces |-> MaxSurfaces],
      compositor |-> {"configure", "close", "touch"}],
     [application |-> [main |-> "Window", actions |-> {},
                       kinds |-> {}, autosize |-> FALSE, messages |-> {"widget"}, surfaces |-> MaxSurfaces],
      compositor |-> {"configure", "frame", "scale_factor_changed"}],
     [application |-> [main |-> "LayerSurface", actions |-> {"Create", "Size", "Destroy"},
                       kinds |-> {"Popup"}, autosize |-> TRUE,
                       messages |-> {"widget"}, surfaces |-> MaxSurfaces],
      compositor |-> {"configure", "close"}],
     [application |-> [main |-> "none",
                       actions |-> {"Lock", "Unlock", "LockSurface", "Destroy"},
                       kinds |-> {}, autosize |-> FALSE, messages |-> {"runtime"}, surfaces |-> MaxSurfaces],
      compositor |-> {"configure", "locked", "finished"}],
     [application |-> [main |-> "Window", actions |-> {"StartDnd", "DndCancelled"},
                       kinds |-> {"Dnd"}, autosize |-> FALSE, messages |-> {"widget"}, surfaces |-> MaxSurfaces],
      compositor |-> {"configure", "data_source"}],
     [application |-> [main |-> "Window",
                       actions |-> {"Create", "StartDnd", "DndCancelled"},
                       kinds |-> {"Window"}, autosize |-> FALSE,
                       messages |-> {"widget"}, surfaces |-> MaxSurfaces],
      compositor |-> {"configure"}]}

\* init_command: the Command of Application::new, then the initial surface of
\* the settings under window::Id::MAIN
InitInputs(a) ==
    {[NoInput EXCEPT !.cmds = c \o main] :
        c \in Commands(a),
        main \in IF a.application.main = "none" THEN {<<>>}
                 ELSE {<<Ev("Create", a.application.main, NoObject, Native(1),
                             a.application.autosize)>>}}

\* Vec::dedup: of equal neighbours the first stays
RECURSIVE Dedup(_)

Dedup(s) ==
    IF Len(s) < 2 THEN s
    ELSE IF s[1] = s[2] THEN Dedup(Tail(s))
    ELSE <<s[1]>> \o Dedup(Tail(s))

IsSctkEvent(e) == e.t = "RedrawRequested"

IsUserEvent(e) == e.t # "RedrawRequested"

\* drain(..).partition(..) and the chain of the two halves
Partition(events) == SelectSeq(events, IsSctkEvent) \o SelectSeq(events, IsUserEvent)

\* the StartCause of NewEvents after a dispatch under the control flow cf
StartCauses(cf) ==
    CASE cf = "Poll" -> {"Poll"}
      [] cf = "Wait" -> {"WaitCancelled"}
      [] OTHER -> {"WaitCancelled", "ResumeTimeReached"}

\* raw_os_error().unwrap_or(1), with 0 for an error without an OS code
ExitCode(os) == IF os = 0 THEN 1 ELSE os

\* the callback with NewEvents(StartCause::Init), before the loop
Start ==
    /\ pc = "init"
    /\ \E nd \in InitInputs(App) :
       \E r \in {Callback(control_flow, control_receiver, App,
                          Ev("NewEvents", "Init", NoObject, NoNative, FALSE), nd)} :
            SetApp(r, "loop", user_events_channel)
    /\ UNCHANGED <<exit_code, error, windows, session_lock, dnd_source,
                   compositor_updates, frame_events, state_sctk_events, back_buffer,
                   pending_user_events, pending_redraws>>
    /\ UNCHANGED <<treeVars, handlerVars, server, compositor, iters>>

\* flush, dispatch_pending or dispatch fails: break with the code of the error
DispatchFails ==
    /\ pc = "loop"
    /\ \E at \in {"flush", "dispatch_pending", "dispatch"}, os \in {0, EIO} :
        /\ at = "dispatch" => control_flow # "ExitWithCode"
        /\ error' = [at |-> at, os |-> os]
        /\ exit_code' = ExitCode(os)
    /\ pc' = "destroyed"
    /\ UNCHANGED <<control_flow, windows, session_lock, dnd_source,
                   compositor_updates, frame_events, state_sctk_events, back_buffer,
                   pending_user_events, user_events_channel, pending_redraws>>
    /\ UNCHANGED <<treeVars, handlerVars, appVars, server, compositor, seen, iters>>

\* ControlFlow::ExitWithCode(code) => break code; the code is always 1
DispatchExit ==
    /\ pc = "loop"
    /\ control_flow = "ExitWithCode"
    /\ exit_code' = 1
    /\ pc' = "destroyed"
    /\ UNCHANGED <<control_flow, error, windows, session_lock, dnd_source,
                   compositor_updates, frame_events, state_sctk_events, back_buffer,
                   pending_user_events, user_events_channel, pending_redraws>>
    /\ UNCHANGED <<treeVars, handlerVars, appVars, server, compositor, seen, iters>>

\* the dispatch goes through: the channel source moves what the proxy sent to
\* pending_user_events, NewEvents is handed over, the buffers are swapped
Dispatch ==
    /\ pc = "loop"
    /\ control_flow # "ExitWithCode"
    /\ iters < Horizon
    /\ iters' = iters + 1
    /\ \E cause \in StartCauses(control_flow) :
       \E r \in {Callback(control_flow, control_receiver, App,
                          Ev("NewEvents", cause, NoObject, NoNative, FALSE), NoInput)} :
            SetApp(r, "batch", <<>>)
    /\ back_buffer' = compositor_updates \o frame_events \o state_sctk_events
    /\ compositor_updates' = <<>>
    /\ frame_events' = <<>>
    /\ state_sctk_events' = <<>>
    /\ pending_user_events' = Partition(pending_user_events \o user_events_channel)
    /\ pending_redraws' = <<>>
    /\ UNCHANGED <<exit_code, error, windows, session_lock, dnd_source>>
    /\ UNCHANGED <<treeVars, handlerVars, server, compositor>>

\* a slip: a Close or Done goes on whether or not the surface is still there
DrainFindsAlways(w, e) == TRUE

\* the surface of a Close or Done is found in the windows, layer_surfaces or
\* popups of SctkState
DrainFinds(w, e) == e.o \in DOMAIN w

\* the loop hands over the next event of the buffers it swapped out; a
\* Close or Done of a window, layer surface or popup goes on only when
\* SctkState still has the surface, which it then forgets
DeliverEvent ==
    /\ pc = "batch"
    /\ back_buffer # <<>>
    /\ back_buffer' = Tail(back_buffer)
    /\ LET e == Head(back_buffer)
           closes == e.t \in {"Close", "Done"}
                     /\ e.kind \in {"Window", "LayerSurface", "Popup"}
       IN IF closes /\ ~DrainFinds(windows, e)
          THEN UNCHANGED <<windows, pc, control_flow, user_events_channel,
                           appVars, seen>>
          ELSE /\ windows' = IF closes THEN MapRemove(windows, e.o) ELSE windows
               /\ \E nd \in EventInputs(App, e) :
                  \E r \in {Callback(control_flow, control_receiver, App, e, nd)} :
                       SetApp(r, "batch", user_events_channel)
    /\ UNCHANGED <<exit_code, error, session_lock, dnd_source,
                   compositor_updates, frame_events, state_sctk_events,
                   pending_user_events, pending_redraws>>
    /\ UNCHANGED <<treeVars, handlerVars, server, compositor, iters>>

\* the loop takes the next of the pending user events
DeliverUser ==
    /\ pc = "batch"
    /\ back_buffer = <<>>
    /\ pending_user_events # <<>>
    /\ pending_user_events' = Tail(pending_user_events)
    /\ \E nd \in EventInputs(App, Head(pending_user_events)) :
       \E u \in {UserAction(Loop, Head(pending_user_events), nd)} :
            /\ windows' = u.l.windows
            /\ session_lock' = u.l.session_lock
            /\ dnd_source' = u.l.dnd_source
            /\ pending_redraws' = u.l.pending_redraws
            /\ server' = u.l.server
            /\ dnd_offer' = u.l.dnd_offer
            /\ sources' = u.l.sources
            /\ IF u.panic
               THEN /\ pc' = "panicked"
                    /\ UNCHANGED <<control_flow, user_events_channel, appVars, seen>>
               ELSE IF u.cb = <<>>
               THEN UNCHANGED <<pc, control_flow, user_events_channel, appVars, seen>>
               ELSE \E r \in {Callbacks(control_flow, control_receiver,
                                        IF u.unlock
                                        THEN [App EXCEPT !.seen.held = u.held,
                                                         !.seen.acked = u.acked]
                                        ELSE App,
                                        u.cb, nd)} :
                        SetApp(r, "batch", user_events_channel)
    /\ UNCHANGED <<exit_code, error, compositor_updates, frame_events,
                   state_sctk_events, back_buffer>>
    /\ UNCHANGED <<treeVars, touch_points, fingers, drag_offer, buffers, compositor, iters>>

\* MainEventsCleared, then pending_redraws.dedup()
Cleared ==
    /\ pc = "batch"
    /\ back_buffer = <<>>
    /\ pending_user_events = <<>>
    /\ \E nd \in ClearedInputs(App, iters < Horizon) :
       \E r \in {Callback(control_flow, control_receiver, App,
                          LoopEvent("MainEventsCleared"), nd)} :
            SetApp(r, "redraws", user_events_channel)
    /\ pending_redraws' = Dedup(pending_redraws)
    /\ UNCHANGED <<exit_code, error, windows, session_lock, dnd_source,
                   compositor_updates, frame_events, state_sctk_events, back_buffer,
                   pending_user_events>>
    /\ UNCHANGED <<treeVars, handlerVars, server, compositor, iters>>

\* for id in pending_redraws: RedrawRequested(id)
Redraw ==
    /\ pc = "redraws"
    /\ pending_redraws # <<>>
    /\ pending_redraws' = Tail(pending_redraws)
    /\ \E r \in {Callback(control_flow, control_receiver, App,
                          Ev("RedrawRequested", "none", Head(pending_redraws),
                             NoNative, FALSE), NoInput)} :
            SetApp(r, "redraws", user_events_channel)
    /\ UNCHANGED <<exit_code, error, windows, session_lock, dnd_source,
                   compositor_updates, frame_events, state_sctk_events, back_buffer,
                   pending_user_events>>
    /\ UNCHANGED <<treeVars, handlerVars, server, compositor, iters>>

\* RedrawEventsCleared ends the iteration
RedrawsCleared ==
    /\ pc = "redraws"
    /\ pending_redraws = <<>>
    /\ \E r \in {Callback(control_flow, control_receiver, App,
                          LoopEvent("RedrawEventsCleared"), NoInput)} :
            SetApp(r, "loop", user_events_channel)
    /\ UNCHANGED <<exit_code, error, windows, session_lock, dnd_source,
                   compositor_updates, frame_events, state_sctk_events, back_buffer,
                   pending_user_events, pending_redraws>>
    /\ UNCHANGED <<treeVars, handlerVars, server, compositor, iters>>

\* callback(IcedSctkEvent::LoopDestroyed, ..); exit_code
Destroyed ==
    /\ pc = "destroyed"
    /\ \E r \in {Callback(control_flow, control_receiver, App,
                          LoopEvent("LoopDestroyed"), NoInput)} :
            SetApp(r, "returned", user_events_channel)
    /\ UNCHANGED <<exit_code, error, windows, session_lock, dnd_source,
                   compositor_updates, frame_events, state_sctk_events, back_buffer,
                   pending_user_events, pending_redraws>>
    /\ UNCHANGED <<treeVars, handlerVars, server, compositor, iters>>

\* run before the first callback: nothing queued, no surface, MAIN the one id
\* in use; the trees of the reconciliation model stay as they start
InitRuns(runs) ==
    /\ tree = TreeEmpty
    /\ next = 1
    /\ NAMED = EmptyNamed
    /\ dbg = FALSE
    /\ assoc = EmptyNamed
    /\ steps = 0
    /\ last = NoLast
    /\ pc = "init"
    /\ control_flow = "Poll"
    /\ exit_code = 0
    /\ error = NoError
    /\ windows = <<>>
    /\ session_lock = FALSE
    /\ dnd_source = FALSE
    /\ compositor_updates = <<>>
    /\ frame_events = <<>>
    /\ state_sctk_events = <<>>
    /\ back_buffer = <<>>
    /\ pending_user_events = <<>>
    /\ user_events_channel = <<>>
    /\ pending_redraws = <<>>
    /\ surface_ids = <<>>
    /\ states = <<>>
    /\ interfaces = {}
    /\ auto_size_surfaces = <<>>
    /\ sctk_events = <<>>
    /\ messages = <<>>
    /\ redraw_pending = FALSE
    /\ control_receiver = <<>>
    /\ instance = "pending"
    /\ exit_on_close_request \in BOOLEAN
    /\ unique = 1
    /\ \E run \in runs : application = run.application /\ compositor = run.compositor
    /\ server = "unlocked"
    /\ seen = NoSeen
    /\ iters = 0
    /\ NoHandlers

InitShell == InitRuns(Runs)

NextShell ==
    \/ Start
    \/ \E o \in DOMAIN windows : SessionLockConfigure(o)
    \/ \E o \in DOMAIN windows : SurfaceConfigure(o)
    \/ \E o \in DOMAIN windows : SurfaceClosed(o)
    \/ \E o \in DOMAIN windows : FrameHandler(o)
    \/ \E o \in DOMAIN windows : ScaleFactorHandler(o)
    \/ \E o \in DOMAIN windows, id \in LeastFree : TouchDown(o, id, 0)
    \/ Locked
    \/ Finished
    \/ \E t \in {"DndFinished", "DndCancelled"} : DataSourceHandler(t)
    \/ RuntimeMessage
    \/ DispatchFails
    \/ DispatchExit
    \/ Dispatch
    \/ DeliverEvent
    \/ DeliverUser
    \/ Cleared
    \/ Redraw
    \/ RedrawsCleared
    \/ Destroyed

SpecShell == InitShell /\ [][NextShell]_vars

\* the touch handlers of the seat: a window under a compositor that puts
\* fingers down, moves and lifts them and cancels the touch session
TouchRun ==
    [application |-> [main |-> "Window", actions |-> {}, kinds |-> {},
                      autosize |-> FALSE, messages |-> {}, surfaces |-> MaxSurfaces],
     compositor |-> {"touch"}]

InitTouch == InitRuns({TouchRun})

NextTouch ==
    \/ Start
    \/ \E o \in DOMAIN windows, id \in Fingers, p \in Positions : TouchDown(o, id, p)
    \/ \E id \in Fingers : TouchUp(id)
    \/ \E id \in Fingers, position \in Positions : TouchMotion(id, position)
    \/ TouchCancel
    \/ Dispatch
    \/ DeliverEvent
    \/ DeliverUser
    \/ Cleared
    \/ RedrawsCleared

SpecTouch == InitTouch /\ [][NextTouch]_vars

\* the data device handlers: a window that is offered drags, asks for their
\* data and finishes them
OfferRun ==
    [application |-> [main |-> "Window", actions |-> {"RequestDndData", "DndFinished"},
                      kinds |-> {}, autosize |-> FALSE, messages |-> {"widget"},
                      surfaces |-> MaxSurfaces],
     compositor |-> {"configure", "data_device"}]

InitOffer == InitRuns({OfferRun})

NextOffer ==
    \/ Start
    \/ \E o \in DOMAIN windows : SurfaceConfigure(o)
    \/ \E o \in DOMAIN windows, offer \in 0..MaxOffers : DataDeviceEnter(o, offer)
    \/ DataDeviceLeave
    \/ DataDeviceDrop
    \/ \E read \in {"data", "end", "Interrupted", "error"} : ReadReady(read)
    \/ Dispatch
    \/ DeliverEvent
    \/ DeliverUser
    \/ Cleared
    \/ Redraw
    \/ RedrawsCleared

SpecOffer == InitOffer /\ [][NextOffer]_vars

\* the popups: a window that opens popups, also on popups, and destroys
\* them; the compositor configures the window, once
Unconfigured == {o \in DOMAIN windows : windows[o].kind = "Window" /\ ~windows[o].last_configure}

PopupRun ==
    [application |-> [main |-> "Window", actions |-> {"Create", "Destroy"},
                      kinds |-> {"Popup"}, autosize |-> FALSE,
                      messages |-> {"runtime"}, surfaces |-> MaxSurfaces + 1],
     compositor |-> {"configure"}]

InitPopup == InitRuns({PopupRun})

NextPopup ==
    \/ Start
    \/ \E o \in Unconfigured : SurfaceConfigure(o)
    \/ RuntimeMessage
    \/ Dispatch
    \/ DeliverEvent
    \/ DeliverUser
    \/ Cleared
    \/ Redraw
    \/ RedrawsCleared

SpecPopup == InitPopup /\ [][NextPopup]_vars

-----------------------------------------------------------------------------
(* The surface records of the shell.                                       *)

\* the native ids surface_ids maps a surface to
MappedIds == {surface_ids[o].inner : o \in DOMAIN surface_ids}

\* the event handled last was the Close or Done of a surface on record
ClosedKnown == seen.last.t \in {"Close", "Done"} /\ seen.known

\* the event handled last ended a drag
DragEnded == seen.last.t \in {"DndFinished", "DndCancelled"}

\* C21: between events states has an entry for a native id exactly when
\* surface_ids maps a surface to it, and interfaces holds only ids of
\* states; once a Close or Done of a surface on record is handled, or the
\* end of a drag, the surface is gone from surface_ids, states and
\* interfaces together.
C21_EntriesTogether ==
    /\ DOMAIN states = MappedIds
    /\ interfaces \subseteq DOMAIN states
    /\ ClosedKnown =>
          /\ seen.last.o \notin DOMAIN surface_ids
          /\ Native(seen.last.o[2]) \notin DOMAIN states \cup interfaces
    /\ DragEnded => \A o \in DOMAIN surface_ids : surface_ids[o].kind # "Dnd"

\* a configured surface with its interface was closed while another stays
C21_Witness ==
    /\ ClosedKnown
    /\ seen.had
    /\ DOMAIN surface_ids # {}
    /\ interfaces # {}

\* the surfaces that were configured and are still on record
LiveConfigured == seen.configured \cap DOMAIN surface_ids

\* C22: a window, layer surface, popup or lock surface has its compositor
\* surface and its interface from its first Configure on, and keeps both
\* until its Done or Close: no MainEventsCleared and no RedrawRequested
\* leaves a configured surface on record without one of them.
C22_ConfiguredKeepsBoth ==
    \A o \in LiveConfigured :
        /\ surface_ids[o].inner \in DOMAIN states
        /\ states[surface_ids[o].inner].surface
        /\ surface_ids[o].inner \in interfaces

\* a configured surface has just been drawn by a RedrawRequested
C22_Witness ==
    /\ seen.last.t = "RedrawRequested"
    /\ seen.last.o \in LiveConfigured
    /\ seen.drawn # <<>>

\* the drag icons on record
Icons == {o \in DOMAIN surface_ids : surface_ids[o].kind = "Dnd"}

\* the draws of the surface n during the event handled last
DrawsOf(n) == {i \in DOMAIN seen.drawn : seen.drawn[i].n = n}

\* C23: a drag icon is drawn and presented exactly once, while
\* DndSurfaceCreated is handled; after that no MainEventsCleared schedules a
\* redraw for it and no RedrawRequested draws it, as long as it is on record.
C23_IconDrawnOnce ==
    /\ seen.last.t = "DndSurfaceCreated" /\ seen.last.o \in Icons =>
          Cardinality(DrawsOf(surface_ids[seen.last.o].inner)) = 1
    /\ seen.last.t # "DndSurfaceCreated" =>
          \A o \in Icons : DrawsOf(surface_ids[o].inner) = {}
    /\ \A o \in seen.scheduled : o \in DOMAIN surface_ids /\ o \notin Icons

\* a MainEventsCleared has scheduled redraws while a drag icon is on record
C23_Witness ==
    /\ seen.last.t = "MainEventsCleared"
    /\ Icons # {}
    /\ seen.scheduled # {}

-----------------------------------------------------------------------------
(* The session lock.                                                       *)

\* the event handled last was the SessionUnlocked of an Unlock action
UnlockedSeen == seen.last.t = "SessionUnlocked"

\* C24: on an Unlock action the held session lock is unlocked and a
\* roundtrip of the connection is completed before SessionUnlocked is handed
\* to the application: the application never sees Unlocked for a lock whose
\* unlock the compositor has not processed.
C24_UnlockedAfterRoundtrip == UnlockedSeen /\ seen.held => seen.acked

\* C25: SessionUnlocked is handed to the application only for an Unlock
\* action that released a session lock which was held, asked for by an
\* earlier Lock and not unlocked since.
C25_UnlockedOnlyForHeldLock == UnlockedSeen => seen.held

-----------------------------------------------------------------------------
(* Events for surfaces that are not on record.                             *)

\* this step hands the instance an event about a surface
HandsSurfaceEvent == sctk_events' = Append(sctk_events, seen'.last)

\* the events of a surface that C26 is about
SurfaceEventTypes == {"Configure", "Size", "ScaleFactorChanged", "Done", "Close"}

\* C26: a Configure, Size, ScaleFactorChanged, Done or Close whose surface is
\* not in surface_ids changes nothing in surface_ids, states, interfaces or
\* auto_size_surfaces, and does not end the main loop.
C26_UnknownSurfaceIgnored ==
    [][HandsSurfaceEvent /\ seen'.last.t \in SurfaceEventTypes /\ ~seen'.known =>
          /\ surface_ids' = surface_ids
          /\ states' = states
          /\ interfaces' = interfaces
          /\ auto_size_surfaces' = auto_size_surfaces
          /\ instance' = "running"
          /\ control_flow' # "ExitWithCode"
          /\ pc' = "batch"]_vars

\* a Configure was handled for a surface that a Close had taken off the
\* record, while another surface stays on it
C26_Witness ==
    /\ seen.last.t = "Configure"
    /\ ~seen.known
    /\ sctk_events # <<>>
    /\ sctk_events[Len(sctk_events)] = seen.last
    /\ DOMAIN surface_ids # {}

-----------------------------------------------------------------------------
(* The end of the run loop and the order of what the instance is handed.   *)

\* the loop was left on a failure and its last callback is over
FailedAndOver == error.at # "none" /\ pc \in {"returned", "panicked"}

\* C27: when flush, dispatch_pending or dispatch fails the run loop ends and
\* run_return returns the raw OS error code of the failure when there is
\* one, and 1 otherwise.
C27_FailureReturnsCode ==
    FailedAndOver =>
        /\ pc = "returned"
        /\ exit_code = IF error.os # 0 THEN error.os ELSE 1

\* s is a subsequence of q
RECURSIVE SubsequenceOf(_, _)

SubsequenceOf(s, q) ==
    IF s = <<>> THEN TRUE
    ELSE IF q = <<>> THEN FALSE
    ELSE IF Head(s) = Head(q) THEN SubsequenceOf(Tail(s), Tail(q))
    ELSE SubsequenceOf(s, Tail(q))

\* the events broadcast on behalf of the surface o in the last
\* MainEventsCleared, in the order of the broadcasts
BroadcastFor(o) ==
    LET For(b) == b.o = o
        Of(bs) == [k \in 1..Len(bs) |-> bs[k].e]
    IN Of(SelectSeq(seen.broadcast, For))

\* C28: within one MainEventsCleared the events routed to a surface are
\* broadcast to the runtime in the order in which they were pushed on the
\* queue of events.
C28_BroadcastInQueueOrder ==
    \A o \in DOMAIN surface_ids :
        SubsequenceOf(BroadcastFor(o), FlatMapToNative(seen.queue))

\* two different events of one batch were broadcast for one surface
C28_Witness ==
    \E o \in DOMAIN surface_ids :
        /\ Len(BroadcastFor(o)) >= 2
        /\ BroadcastFor(o)[1] # BroadcastFor(o)[2]

\* C29: in every iteration no RedrawRequested is handed to the application
\* before MainEventsCleared of that iteration was handled: the redraws asked
\* for during the batch are issued after MainEventsCleared and before
\* RedrawEventsCleared.
C29_RedrawAfterCleared == seen.last.t = "RedrawRequested" => seen.phase = "cleared"

\* a RedrawRequested is handed over after MainEventsCleared while another
\* one waits in pending_redraws
C29_Witness ==
    /\ seen.last.t = "RedrawRequested"
    /\ seen.phase = "cleared"
    /\ pc = "redraws"
    /\ pending_redraws # <<>>

\* the event handled last was the Close or Done of the main window, which
\* was on record
MainClosed ==
    /\ ClosedKnown
    /\ seen.last.kind \in {"Window", "LayerSurface"}
    /\ seen.main # NoNative
    /\ seen.main = Native(seen.last.o[2])

\* C30: with exit_on_close_request, handling the Close of the main window
\* of the application ends the main loop, so that the application exits.
C30_CloseOfMainExits ==
    exit_on_close_request /\ MainClosed =>
        instance = "finished" /\ control_flow = "ExitWithCode"

-----------------------------------------------------------------------------
(* The number of children after a reconciliation.                          *)

\* C32: after diff_children_custom returns the parent has as many children
\* as new_children, whatever mix of named and unnamed children the old and
\* the new list hold.
C32_ChildCountMatches == IsChildren => Len(tree.children) = Len(NewChildren)

\* C33: for non-empty current_children and new_children and every
\* maybe_changed, diff_children_custom_with_search completes without a
\* splice or slice out of range and leaves current_children as long as
\* new_children.
C33_SearchCompletesSized ==
    IsSearch /\ SearchOld # <<>> /\ last.w # <<>> =>
        /\ ~last.search.panic
        /\ Len(tree.children) = Len(last.w)

-----------------------------------------------------------------------------
(* The end of the loop once the instance is over.                          *)

\* C34: once control_flow is ExitWithCode(c) no later callback changes it:
\* the instance is handed no further event, and the loop leaves with the
\* code c (always 1, the one code the closure of run sets) at its next
\* check of control_flow.
C34_ExitIsSticky ==
    [][control_flow = "ExitWithCode" =>
          /\ control_flow' = "ExitWithCode"
          /\ UNCHANGED <<appVars, seen>>
          /\ pc = "loop" /\ pc' # "loop" =>
                /\ pc' = "destroyed"
                /\ error' = error => exit_code' = 1]_vars

\* the instance ended during the batch and the callback for
\* MainEventsCleared was made after that
C34_Witness ==
    /\ control_flow = "ExitWithCode"
    /\ pc = "redraws"
    /\ seen.last.t \in {"Close", "Done"}

\* C39: in one iteration of the loop RedrawRequested is issued at most once
\* per surface: the redraws that are issued after MainEventsCleared name no
\* surface twice
C39_RedrawOncePerSurface ==
    pc = "redraws" =>
        \A i, j \in DOMAIN pending_redraws :
            pending_redraws[i] = pending_redraws[j] => i = j

\* C38: every event consumed in a MainEventsCleared batch is broadcast to
\* the subscriptions of the Runtime at most once, however many surfaces are
\* live: an event is among the broadcasts no more often than it is in the
\* batch
C38_BroadcastAtMostOnce ==
    \A i \in DOMAIN seen.broadcast :
        Cardinality({j \in DOMAIN seen.broadcast :
                        seen.broadcast[j].e = seen.broadcast[i].e})
            <= Cardinality({k \in DOMAIN seen.queue :
                               seen.queue[k] = seen.broadcast[i].e})

\* C35: for every window, layer surface and popup the application is handed
\* at most one Close or Done, also when a Destroy action and a close of the
\* compositor both name the surface
C35_ClosedOnce ==
    \A i, j \in DOMAIN seen.closed : seen.closed[i] = seen.closed[j] => i = j

\* a Close or Done of the compositor was handed on for a surface, and a
\* Destroy action of the application for the same surface is next
C35_Witness ==
    /\ pc = "batch"
    /\ back_buffer = <<>>
    /\ pending_user_events # <<>>
    /\ Head(pending_user_events).t = "Destroy"
    /\ seen.last.t \in {"Close", "Done"}
    /\ seen.last.o = Object(Head(pending_user_events).n[2])
    /\ seen.last.o \notin DOMAIN windows

\* C40: touch_points holds exactly the fingers that are down: a finger that
\* was lifted is no longer tracked
C40_TouchPointsAreFingersDown == DOMAIN touch_points = fingers

\* the offer that was dropped is still the one in dnd_offer
OfferKept ==
    /\ dnd_offer'.some
    /\ dnd_offer'.dropped
    /\ dnd_offer'.offer = dnd_offer.offer
    /\ dnd_offer'.surface = dnd_offer.surface

\* the loop takes the action DndFinished of the application
FinishStep ==
    /\ pc = "batch"
    /\ back_buffer = <<>>
    /\ pending_user_events # <<>>
    /\ Head(pending_user_events).t = "DndFinished"
    /\ pending_user_events' = Tail(pending_user_events)

\* the handler enter has run
EnterStep ==
    /\ pc = "loop"
    /\ Len(state_sctk_events') = Len(state_sctk_events) + 1
    /\ state_sctk_events'[Len(state_sctk_events')].t = "DndOffer"
    /\ state_sctk_events'[Len(state_sctk_events')].variant = "Enter"

\* C36: after drop_performed on the current offer a leave keeps dnd_offer and
\* emits no Leave, and the offer stays until the application issues
\* DndFinished or a new enter replaces it; without a drop, leave clears
\* dnd_offer and emits exactly one Leave
C36_DroppedOfferStays ==
    [][/\ DataDeviceLeave /\ dnd_offer.some /\ dnd_offer.dropped =>
            UNCHANGED <<dnd_offer, state_sctk_events>>
       /\ dnd_offer.some /\ dnd_offer.dropped /\ ~OfferKept =>
            FinishStep \/ EnterStep
       /\ DataDeviceLeave /\ dnd_offer.some /\ ~dnd_offer.dropped =>
            /\ dnd_offer' = NoOffer
            /\ state_sctk_events' =
                    Append(state_sctk_events, OfferEvent("Leave", dnd_offer.surface))]_vars

\* the loop is about to take a Destroy of a popup that SctkState has
DestroysPopup ==
    /\ pc = "batch"
    /\ back_buffer = <<>>
    /\ pending_user_events # <<>>
    /\ Head(pending_user_events).t = "Destroy"
    /\ Head(pending_user_events).kind = "Popup"
    /\ FindSurface(windows, {"Popup"}, Head(pending_user_events).n) # {}

\* the popups that have the surface o as parent
PopupsOn(w, o) == {p \in DOMAIN w : w[p].kind = "Popup" /\ w[p].parent.o = o}

\* C37: a Destroy of a popup destroys the popups from the uppermost down to
\* the requested one: none is destroyed, and no Done handed over for it,
\* while a popup that has it as parent is alive, and the requested popup is
\* the last
C37_UppermostFirst ==
    DestroysPopup =>
        LET d == DestroySurface(Loop, Head(pending_user_events))
            requested == FindSurface(windows, {"Popup"}, Head(pending_user_events).n)
        IN /\ \A i \in DOMAIN d.cb :
                /\ PopupsOn(d.l.windows, d.cb[i].o) = {}
                /\ \A j \in DOMAIN d.cb : j > i => d.cb[j].parent # d.cb[i].o
           /\ d.cb # <<>>
           /\ d.cb[Len(d.cb)].o \in requested

-----------------------------------------------------------------------------
(* The subsurface buffers: SubsurfaceBuffer is an Arc around the sender    *)
(* of a oneshot channel, SubsurfaceBufferRelease holds the receiver.  A    *)
(* buffer of the model is [refs, wl]: refs counts the SubsurfaceBuffer      *)
(* clones the application holds, wl has one entry per wl_buffer made of    *)
(* it, TRUE while BufferData::subsurface_buffer is Some.                   *)

\* the buffers made, the clones the application holds of one, and the
\* wl_buffers made of one
MaxBuffers == 2

MaxRefs == 2

MaxWlBuffers == 2

\* the strong count of the Arc: the clones of the application and the ones
\* the wl_buffers hold until their Release
StrongCount(b) == b.refs + Cardinality({i \in DOMAIN b.wl : b.wl[i]})

\* the sender lives in SubsurfaceBufferInner and is dropped with the last
\* reference; nothing ever sends on it
SenderDropped(b) == StrongCount(b) = 0

\* oneshot::Receiver::try_recv: Ok(None) while the sender is alive and has
\* sent nothing, Err(Canceled) once it is dropped
TryRecv(b) == IF SenderDropped(b) THEN "Err(Canceled)" ELSE "Ok(None)"

\* SubsurfaceBufferRelease::released
Released(b) == TryRecv(b) = "Ok(None)"

\* what a step on the buffers leaves alone
BuffersOnly ==
    UNCHANGED <<treeVars, loopVars, appVars, server, compositor, seen, iters,
                touch_points, fingers, dnd_offer, drag_offer, sources>>

\* SubsurfaceBuffer::new: one reference, and the receiver for the release
NewBuffer ==
    /\ Len(buffers) < MaxBuffers
    /\ buffers' = Append(buffers, [refs |-> 1, wl |-> <<>>])
    /\ BuffersOnly

\* SubsurfaceBuffer::clone
CloneBuffer(k) ==
    /\ buffers[k].refs > 0
    /\ buffers[k].refs < MaxRefs
    /\ buffers' = [buffers EXCEPT ![k].refs = @ + 1]
    /\ BuffersOnly

\* the application drops a SubsurfaceBuffer
DropBuffer(k) ==
    /\ buffers[k].refs > 0
    /\ buffers' = [buffers EXCEPT ![k].refs = @ - 1]
    /\ BuffersOnly

\* SubsurfaceBuffer::create_buffer: the wl_buffer keeps Some(self.clone())
CreateBuffer(k) ==
    /\ buffers[k].refs > 0
    /\ Len(buffers[k].wl) < MaxWlBuffers
    /\ buffers' = [buffers EXCEPT ![k].wl = Append(@, TRUE)]
    /\ BuffersOnly

\* wl_buffer::Event::Release: data.subsurface_buffer.lock().unwrap().take()
BufferRelease(k, i) ==
    /\ buffers[k].wl[i]
    /\ buffers' = [buffers EXCEPT ![k].wl[i] = FALSE]
    /\ BuffersOnly

InitBuffer ==
    /\ tree = TreeEmpty
    /\ next = 1
    /\ NAMED = EmptyNamed
    /\ dbg = FALSE
    /\ assoc = EmptyNamed
    /\ steps = 0
    /\ last = NoLast
    /\ NoShell

NextBuffer ==
    \/ NewBuffer
    \/ \E k \in DOMAIN buffers : CloneBuffer(k)
    \/ \E k \in DOMAIN buffers : DropBuffer(k)
    \/ \E k \in DOMAIN buffers : CreateBuffer(k)
    \/ \E k \in DOMAIN buffers : \E i \in DOMAIN buffers[k].wl : BufferRelease(k, i)

SpecBuffer == InitBuffer /\ [][NextBuffer]_vars

\* C31: released() is true exactly when the buffer has been released: when
\* every SubsurfaceBuffer reference, the ones the wl_buffers hold until their
\* Release among them, has been dropped; it is false while one is alive
C31_ReleasedWhenAllDropped ==
    \A k \in DOMAIN buffers : Released(buffers[k]) <=> StrongCount(buffers[k]) = 0

====
